---------------------------- MODULE Spec2Model ----------------------------
(***************************************************************************)
(* Capture-time fusion of photo-tools (src/common/file_datetime.py and     *)
(* src/common/datetime_utils.py): candidates, the ranking comparator, the  *)
(* path pattern extractor, the filesystem generator and the two-stage      *)
(* fusion of collect_file_datetime_context; the scan jobs of the browsing  *)
(* server (src/media-map-browser/server.py); and copy_by_plan of the batch *)
(* organizer (src/photo_organizer.py).                                     *)
(*                                                                         *)
(* Strings are TLA+ strings, read character by character with SubSeq.      *)
(* A datetime is a record of its wall-clock fields plus its UTC offset in  *)
(* minutes (every datetime that reaches a candidate is zone-aware).        *)
(***************************************************************************)
EXTENDS Integers, Sequences, FiniteSets, TLC

VARIABLES
    local_offset,   \* UTC offset (minutes) of datetime.now().astimezone()
    tzdata,         \* the rules of the local time zone
    cands,          \* the candidate list handed to the ranking engine
    cmp,            \* results of _compare_candidate over cands, or NotRun
    ranked,         \* outcome of choose_most_likely(cands), or NotRun
    file_path,      \* the path under analysis, a sequence of components
    exiftool_run,   \* how the exiftool subprocess ends for file_path
    ffprobe_run,    \* how the ffprobe subprocess ends for file_path
    stat,           \* os.stat_result of file_path
    flags,          \* keyword arguments of the operation under analysis
    path_trace,     \* the stages of path_inferred_candidates, or NotRun
    ctx,            \* the FileDatetimeContext returned, or NotRun
    invoked,        \* the tools collect_file_datetime_context has run
    parse_input,    \* the raw value handed to parse_datetime
    parse_output,   \* what parse_datetime returned for it, or NotRun
    calls,          \* the calls of the ranking engine made on cands so far
    generated,      \* what a metadata generator returned, or NotRun
    jobs,           \* the ScanJob of every running scan of the browsing server
    scan,           \* the locals and the position of every scan_worker thread
    meta_cache,     \* AppState.meta_cache: file -> cached record
    meta_changed,   \* AppState.meta_changed
    meta_disk,      \* the content of META_CACHE_PATH
    plan,           \* copy_by_plan's records and mode, and the files it found
    disk,           \* the files and the date folders on disk
    copy            \* the locals and the position of copy_by_plan

\* The state of the browsing server (src/media-map-browser/server.py).
server_vars == <<jobs, scan, meta_cache, meta_changed, meta_disk>>

\* The state of the batch organizer (src/photo_organizer.py).
organizer_vars == <<plan, disk, copy>>

vars == <<local_offset, tzdata, cands, cmp, ranked, file_path, exiftool_run,
          ffprobe_run, stat, flags, path_trace, ctx, invoked, parse_input,
          parse_output, calls, generated, server_vars, organizer_vars>>

\* Python's None where a string is expected, and the value of a result
\* variable whose operation has not run yet.
None == "<None>"
NotRun == [status |-> "not run"]

\* No server is running.
ServerIdle ==
    /\ jobs = NotRun
    /\ scan = NotRun
    /\ meta_cache = NotRun
    /\ meta_changed = FALSE
    /\ meta_disk = NotRun

\* No organizer is running.
OrganizerIdle ==
    /\ plan = NotRun
    /\ disk = NotRun
    /\ copy = NotRun

-----------------------------------------------------------------------------
(* Strings *)

\* The characters of the model's texts in code point order; Ord is the rank
\* of a character, which orders characters as Python's str comparison does.
Alphabet == " -./0123456789:ABCDEFGHIJKLMNOPQRSTUVWXYZ[]_abcdefghijklmnopqrstuvwxyz"

Digits == "0123456789"

Ord(c) == CHOOSE i \in 1..Len(Alphabet) : SubSeq(Alphabet, i, i) = c

CharAt(s, i) == SubSeq(s, i, i)

InClass(c, class) == \E i \in 1..Len(class) : SubSeq(class, i, i) = c

StartsWith(s, prefix) ==
    /\ Len(prefix) <= Len(s)
    /\ SubSeq(s, 1, Len(prefix)) = prefix

EndsWith(s, suffix) ==
    /\ Len(suffix) <= Len(s)
    /\ SubSeq(s, Len(s) - Len(suffix) + 1, Len(s)) = suffix

Contains(s, sub) ==
    \E i \in 1..(Len(s) - Len(sub) + 1) : SubSeq(s, i, i + Len(sub) - 1) = sub

\* s < t for Python strings: code point order, a proper prefix is smaller.
RECURSIVE StrLess(_, _)
StrLess(s, t) ==
    IF Len(t) = 0 THEN FALSE
    ELSE IF Len(s) = 0 THEN TRUE
    ELSE IF Head(s) = Head(t) THEN StrLess(Tail(s), Tail(t))
    ELSE Ord(Head(s)) < Ord(Head(t))

\* f"{n:0{width}d}" for n >= 0.
RECURSIVE ZeroPad(_, _)
ZeroPad(n, width) ==
    IF width <= 1 /\ n < 10 THEN CharAt(Digits, n + 1)
    ELSE ZeroPad(n \div 10, width - 1) \o CharAt(Digits, (n % 10) + 1)

\* int(s) for a string of decimal digits.
RECURSIVE ToInt(_)
ToInt(s) ==
    IF Len(s) = 0 THEN 0
    ELSE 10 * ToInt(SubSeq(s, 1, Len(s) - 1))
         + ((CHOOSE i \in 1..10 : CharAt(Digits, i) = CharAt(s, Len(s))) - 1)

-----------------------------------------------------------------------------
(* datetime *)

IsLeap(year) == year % 4 = 0 /\ (year % 100 # 0 \/ year % 400 = 0)

DaysInMonth(year, month) ==
    IF month = 2 THEN (IF IsLeap(year) THEN 29 ELSE 28)
    ELSE IF month \in {4, 6, 9, 11} THEN 30 ELSE 31

DaysBeforeYear(year) ==
    LET y == year - 1 IN y * 365 + (y \div 4) - (y \div 100) + (y \div 400)

RECURSIVE DaysBeforeMonth(_, _)
DaysBeforeMonth(year, month) ==
    IF month = 1 THEN 0
    ELSE DaysBeforeMonth(year, month - 1) + DaysInMonth(year, month - 1)

\* date.toordinal(): 1 for 0001-01-01.
Ordinal(year, month, day) ==
    DaysBeforeYear(year) + DaysBeforeMonth(year, month) + day

\* The ordinal of 1970-01-01.
EpochOrdinal == Ordinal(1970, 1, 1)

DateTime(year, month, day, hour, minute, second, microsecond, utcoffset) ==
    [year |-> year, month |-> month, day |-> day, hour |-> hour,
     minute |-> minute, second |-> second, microsecond |-> microsecond,
     utcoffset |-> utcoffset]

\* The wall-clock fields read from a text.
Wall(year, month, day, hour, minute, second) ==
    [year |-> year, month |-> month, day |-> day, hour |-> hour,
     minute |-> minute, second |-> second]

\* datetime.timestamp() of a zone-aware value: <<whole seconds since the
\* epoch, microseconds>>. The float the code compares orders instants as
\* this pair is ordered by InstantLess.
Timestamp(value) ==
    << (Ordinal(value.year, value.month, value.day) - EpochOrdinal) * 86400
       + value.hour * 3600 + value.minute * 60 + value.second
       - value.utcoffset * 60,
       value.microsecond >>

InstantLess(ta, tb) == ta[1] < tb[1] \/ (ta[1] = tb[1] /\ ta[2] < tb[2])

\* Python's None where a datetime is expected.
NoDatetime == DateTime(0, 0, 0, 0, 0, 0, 0, 0)

\* datetime(...) raises ValueError outside these ranges.
ValidDate(year, month, day, hour, minute, second) ==
    /\ year \in 1..9999
    /\ month \in 1..12
    /\ day \in 1..DaysInMonth(year, month)
    /\ hour \in 0..23
    /\ minute \in 0..59
    /\ second \in 0..59

_build_datetime(year, month, day, hour, minute, second, tz) ==
    IF ValidDate(year, month, day, hour, minute, second)
    THEN DateTime(year, month, day, hour, minute, second, 0, tz)
    ELSE NoDatetime

-----------------------------------------------------------------------------
(* TimeCandidate and the ranking comparator *)

TimeCandidate(source, timestamp, note, origin_source) ==
    [source |-> source, timestamp |-> timestamp, note |-> note,
     origin_source |-> origin_source]

\* The dataclass __eq__ used by list.index: field-wise, and two zone-aware
\* datetimes are equal when they denote the same instant.
CandidateEq(a, b) ==
    /\ a.source = b.source
    /\ Timestamp(a.timestamp) = Timestamp(b.timestamp)
    /\ a.note = b.note
    /\ a.origin_source = b.origin_source

infer_path_precision(source) ==
    IF ~StartsWith(source, "path:") THEN None
    ELSE IF Contains(source, "YYYYMMDD_HHMMSS")
            \/ Contains(source, "YYYY-MM-DD HH:MM:SS") THEN "datetime"
    ELSE IF Contains(source, ".YYYYMMDD.") \/ Contains(source, ".YYYY-MM-DD.")
            \/ EndsWith(source, ":YYYYMMDD") THEN "date"
    ELSE IF Contains(source, ".YYYYMM.") \/ Contains(source, ".YYYY-MM.")
            \/ EndsWith(source, ":YYYYMM") THEN "month"
    ELSE IF Contains(source, ".YYYY.") \/ EndsWith(source, ":YYYY") THEN "year"
    ELSE None

_candidate_from(candidate) ==
    IF candidate.origin_source # None /\ candidate.origin_source # ""
    THEN candidate.origin_source
    ELSE candidate.source

_precision_digits(candidate) ==
    LET precision == infer_path_precision(_candidate_from(candidate))
    IN  IF precision = "year" THEN 4
        ELSE IF precision = "month" THEN 6
        ELSE IF precision = "date" THEN 8
        ELSE 17

_timestamp_token(value) ==
    ZeroPad(value.year, 4) \o ZeroPad(value.month, 2) \o ZeroPad(value.day, 2)
    \o ZeroPad(value.hour, 2) \o ZeroPad(value.minute, 2)
    \o ZeroPad(value.second, 2) \o ZeroPad(value.microsecond \div 1000, 3)

\* token[:digits]
Slice(token, digits) ==
    SubSeq(token, 1, IF digits < Len(token) THEN digits ELSE Len(token))

_precision_token(candidate) ==
    Slice(_timestamp_token(candidate.timestamp), _precision_digits(candidate))

_has_prefix_relation(a, b) ==
    LET related(ta, tb) ==
            IF Len(ta) = Len(tb) THEN ta = tb
            ELSE IF Len(ta) < Len(tb) THEN StartsWith(tb, ta)
            ELSE StartsWith(ta, tb)
    IN  related(_precision_token(a), _precision_token(b))

\* Mutant of _compare_candidate: the prefix rule (lines 143-144) is left out,
\* so raw instants are compared first.
_compare_candidate_chronological(a, b) ==
    LET compare(da, db, ta, tb, sa, sb) ==
            IF InstantLess(ta, tb) THEN -1
            ELSE IF InstantLess(tb, ta) THEN 1
            ELSE IF da # db THEN (IF da > db THEN -1 ELSE 1)
            ELSE IF StrLess(sa, sb) THEN -1
            ELSE IF StrLess(sb, sa) THEN 1
            ELSE 0
    IN  compare(_precision_digits(a), _precision_digits(b),
                Timestamp(a.timestamp), Timestamp(b.timestamp),
                _candidate_from(a), _candidate_from(b))

\* A variant whose tie-break at equal instants prefers the coarser
\* candidate.
_compare_candidate_coarser_on_tie(a, b) ==
    LET compare(da, db, ta, tb, sa, sb) ==
            IF _has_prefix_relation(a, b) /\ da # db
            THEN (IF da > db THEN -1 ELSE 1)
            ELSE IF InstantLess(ta, tb) THEN -1
            ELSE IF InstantLess(tb, ta) THEN 1
            ELSE IF da # db THEN (IF da < db THEN -1 ELSE 1)
            ELSE IF StrLess(sa, sb) THEN -1
            ELSE IF StrLess(sb, sa) THEN 1
            ELSE 0
    IN  compare(_precision_digits(a), _precision_digits(b),
                Timestamp(a.timestamp), Timestamp(b.timestamp),
                _candidate_from(a), _candidate_from(b))

\* The locals of the function (da, db, ta, tb, sa, sb) are the parameters of
\* a local operator, applied to the expressions the code assigns to them.
_compare_candidate(a, b) ==
    LET compare(da, db, ta, tb, sa, sb) ==
            IF _has_prefix_relation(a, b) /\ da # db
            THEN (IF da > db THEN -1 ELSE 1)
            ELSE IF InstantLess(ta, tb) THEN -1
            ELSE IF InstantLess(tb, ta) THEN 1
            ELSE IF da # db THEN (IF da > db THEN -1 ELSE 1)
            ELSE IF StrLess(sa, sb) THEN -1
            ELSE IF StrLess(sb, sa) THEN 1
            ELSE 0
    IN  compare(_precision_digits(a), _precision_digits(b),
                Timestamp(a.timestamp), Timestamp(b.timestamp),
                _candidate_from(a), _candidate_from(b))

-----------------------------------------------------------------------------
(* sorted(candidates, key=cmp_to_key(_compare_candidate)) *)

\* K.__lt__ of functools.cmp_to_key: the only comparison list.sort makes.
ISLT(x, y) == _compare_candidate(x, y) < 0

Reverse(L) == [i \in 1..Len(L) |-> L[Len(L) + 1 - i]]

\* list.sort's count_run: the length of the run that starts the list, for a
\* strictly descending run (i is the next index to look at).
RECURSIVE DescendingRun(_, _)
DescendingRun(L, i) ==
    IF i <= Len(L) /\ ISLT(L[i], L[i - 1]) THEN DescendingRun(L, i + 1)
    ELSE i - 1

RECURSIVE AscendingRun(_, _)
AscendingRun(L, i) ==
    IF i <= Len(L) /\ ~ISLT(L[i], L[i - 1]) THEN AscendingRun(L, i + 1)
    ELSE i - 1

count_run(L) ==
    IF Len(L) = 1 THEN [n |-> 1, descending |-> FALSE]
    ELSE IF ISLT(L[2], L[1])
         THEN [n |-> DescendingRun(L, 3), descending |-> TRUE]
         ELSE [n |-> AscendingRun(L, 3), descending |-> FALSE]

\* binarysort's search for the slot of pivot in the sorted prefix L[l..r-1]
\* (l < r at the first call, the prefix being non-empty).
RECURSIVE BinarySlot(_, _, _, _)
BinarySlot(L, pivot, l, r) ==
    IF l >= r THEN l
    ELSE IF ISLT(pivot, L[l + ((r - l) \div 2)])
         THEN BinarySlot(L, pivot, l, l + ((r - l) \div 2))
         ELSE BinarySlot(L, pivot, l + ((r - l) \div 2) + 1, r)

\* binarysort: L[1..start-1] is sorted; insert L[start], L[start+1], ...
RECURSIVE binarysort(_, _)
binarysort(L, start) ==
    IF start > Len(L) THEN L
    ELSE LET moved(slot) == SubSeq(L, 1, slot - 1) \o <<L[start]>>
                            \o SubSeq(L, slot, start - 1)
                            \o SubSeq(L, start + 1, Len(L))
         IN  binarysort(moved(BinarySlot(L, L[start], 1, start)), start + 1)

\* list.sort on a list shorter than 64 elements (one run, extended by
\* binary insertion); every list of the model is that short.
sorted(L) ==
    IF Len(L) < 2 THEN L
    ELSE LET extended(run) ==
                 binarysort((IF run.descending
                             THEN Reverse(SubSeq(L, 1, run.n))
                             ELSE SubSeq(L, 1, run.n))
                            \o SubSeq(L, run.n + 1, Len(L)),
                            run.n + 1)
         IN  extended(count_run(L))

\* The outcome of a call: the value returned, or the exception raised.
Returned(value) == [status |-> "returned", value |-> value]
Raised(error) == [status |-> "raised", error |-> error]

NoCandidatesError == "RuntimeError: No datetime candidates available"

\* Mutant of choose_most_likely: the empty list yields a sentinel candidate
\* instead of raising.
choose_most_likely_sentinel(candidates) ==
    IF Len(candidates) = 0
    THEN Returned(TimeCandidate("", NoDatetime, "", None))
    ELSE Returned(sorted(candidates)[1])

choose_most_likely(candidates) ==
    IF Len(candidates) = 0 THEN Raised(NoCandidatesError)
    ELSE Returned(sorted(candidates)[1])

sort_candidates(candidates) == sorted(candidates)

\* A variant that sorts the caller's list in place, as list.sort does.
after_sorted_in_place(candidates) == sorted(candidates)

\* The caller's list after sorted(candidates, key=...) of lines 167 and 172:
\* the builtin sorts a new list built from its argument.
after_sorted(candidates) == candidates

-----------------------------------------------------------------------------
(* Regular expressions of path_inferred_candidates                           *)
(*                                                                           *)
(* A pattern node is a character class, a sequence, an ordered alternation,  *)
(* a greedy optional item, a greedy repetition (one or more), a capturing    *)
(* group or one of the two lookarounds (?<!\d) and (?!\d). Match gives every *)
(* way a node matches at a position, in the order Python's backtracking      *)
(* tries them, as <<end, groups>> pairs; a group that did not take part is   *)
(* "" (no group of these patterns can match the empty string). The CJK       *)
(* particles of the character classes are left out: the texts of the model   *)
(* are ASCII.                                                                *)

Cls(chars) == [t |-> "cls", cs |-> chars]
Sq(nodes) == [t |-> "seq", xs |-> nodes]
Alt(nodes) == [t |-> "alt", xs |-> nodes]
Opt(node) == [t |-> "opt", x |-> node]
Plus(node) == [t |-> "plus", x |-> node]
Grp(index, node) == [t |-> "grp", i |-> index, x |-> node]
NotAfterDigit == [t |-> "nlb"]
NotBeforeDigit == [t |-> "nla"]

IsDigitAt(text, pos) ==
    pos >= 1 /\ pos <= Len(text) /\ InClass(CharAt(text, pos), Digits)

RECURSIVE Match(_, _, _, _)
RECURSIVE MatchSeq(_, _, _, _, _)
RECURSIVE MatchSeqOver(_, _, _, _, _)
RECURSIVE MatchAlt(_, _, _, _, _)
RECURSIVE MatchPlusOver(_, _, _, _)

SetGroup(results, index, text, pos) ==
    [r \in 1..Len(results) |->
        <<results[r][1],
          [results[r][2] EXCEPT ![index] = SubSeq(text, pos, results[r][1] - 1)]>>]

Match(node, text, pos, groups) ==
    CASE node.t = "cls" ->
            IF pos <= Len(text) /\ InClass(CharAt(text, pos), node.cs)
            THEN << <<pos + 1, groups>> >> ELSE << >>
      [] node.t = "seq" -> MatchSeq(node.xs, 1, text, pos, groups)
      [] node.t = "alt" -> MatchAlt(node.xs, 1, text, pos, groups)
      [] node.t = "opt" -> Match(node.x, text, pos, groups) \o << <<pos, groups>> >>
      [] node.t = "plus" ->
            MatchPlusOver(Match(node.x, text, pos, groups), 1, node, text)
      [] node.t = "grp" -> SetGroup(Match(node.x, text, pos, groups), node.i, text, pos)
      [] node.t = "nlb" ->
            IF IsDigitAt(text, pos - 1) THEN << >> ELSE << <<pos, groups>> >>
      [] node.t = "nla" ->
            IF IsDigitAt(text, pos) THEN << >> ELSE << <<pos, groups>> >>

MatchSeq(xs, k, text, pos, groups) ==
    IF k > Len(xs) THEN << <<pos, groups>> >>
    ELSE MatchSeqOver(Match(xs[k], text, pos, groups), 1, xs, k, text)

MatchSeqOver(results, r, xs, k, text) ==
    IF r > Len(results) THEN << >>
    ELSE MatchSeq(xs, k + 1, text, results[r][1], results[r][2])
         \o MatchSeqOver(results, r + 1, xs, k, text)

MatchAlt(xs, k, text, pos, groups) ==
    IF k > Len(xs) THEN << >>
    ELSE Match(xs[k], text, pos, groups) \o MatchAlt(xs, k + 1, text, pos, groups)

\* One more repetition first (greedy), then stopping after this one.
MatchPlusOver(results, r, node, text) ==
    IF r > Len(results) THEN << >>
    ELSE Match(node, text, results[r][1], results[r][2]) \o <<results[r]>>
         \o MatchPlusOver(results, r + 1, node, text)

\* The match object of pattern.match(text, pos): the first way the pattern
\* matches at pos, as << <<end, groups>> >>, or << >>.
RECURSIVE FirstSeq(_, _, _, _, _)
RECURSIVE FirstSeqOver(_, _, _, _, _)
FirstSeq(xs, k, text, pos, groups) ==
    IF k > Len(xs) THEN << <<pos, groups>> >>
    ELSE FirstSeqOver(Match(xs[k], text, pos, groups), 1, xs, k, text)

FirstSeqOver(results, r, xs, k, text) ==
    IF r > Len(results) THEN << >>
    ELSE LET first(found) ==
                 IF Len(found) > 0 THEN found
                 ELSE FirstSeqOver(results, r + 1, xs, k, text)
         IN  first(FirstSeq(xs, k + 1, text, results[r][1], results[r][2]))

\* A pattern is [alts |-> its top-level alternatives, each a sequence of
\* nodes, ngroups |-> its number of groups].
RECURSIVE MatchAt(_, _, _, _)
MatchAt(pattern, a, text, pos) ==
    IF a > Len(pattern.alts) THEN << >>
    ELSE LET first(found) ==
                 IF Len(found) > 0 THEN found
                 ELSE MatchAt(pattern, a + 1, text, pos)
         IN  first(FirstSeq(pattern.alts[a], 1, text, pos,
                            [g \in 1..pattern.ngroups |-> ""]))

\* pattern.finditer(text): the groups of the non-overlapping matches, left
\* to right.
RECURSIVE finditer(_, _, _)
finditer(pattern, text, pos) ==
    IF pos > Len(text) THEN << >>
    ELSE LET next(found) ==
                 IF Len(found) = 0 THEN finditer(pattern, text, pos + 1)
                 ELSE <<found[1][2]>> \o finditer(pattern, text, found[1][1])
         IN  next(MatchAt(pattern, 1, text, pos))

Lit(c) == Cls(c)
Digit == Cls(Digits)

\* (19\d{2}|20\d{2})
YearGroup(index) ==
    Grp(index, Alt(<<Sq(<<Lit("1"), Lit("9"), Digit, Digit>>),
                     Sq(<<Lit("2"), Lit("0"), Digit, Digit>>)>>))
\* (19\d{2}) and (20\d{2})
Year19Group(index) == Grp(index, Sq(<<Lit("1"), Lit("9"), Digit, Digit>>))
Year20Group(index) == Grp(index, Sq(<<Lit("2"), Lit("0"), Digit, Digit>>))
\* (0[1-9]|1[0-2])
Month2Group(index) ==
    Grp(index, Alt(<<Sq(<<Lit("0"), Cls("123456789")>>),
                     Sq(<<Lit("1"), Cls("012")>>)>>))
\* (0?[1-9]|1[0-2])
Month12Group(index) ==
    Grp(index, Alt(<<Sq(<<Opt(Lit("0")), Cls("123456789")>>),
                     Sq(<<Lit("1"), Cls("012")>>)>>))
\* (0[1-9]|[12]\d|3[01])
Day2Group(index) ==
    Grp(index, Alt(<<Sq(<<Lit("0"), Cls("123456789")>>),
                     Sq(<<Cls("12"), Digit>>),
                     Sq(<<Lit("3"), Cls("01")>>)>>))
\* (0?[1-9]|[12]\d|3[01])
Day12Group(index) ==
    Grp(index, Alt(<<Sq(<<Opt(Lit("0")), Cls("123456789")>>),
                     Sq(<<Cls("12"), Digit>>),
                     Sq(<<Lit("3"), Cls("01")>>)>>))
\* ([01]\d|2[0-3])
Hour2Group(index) ==
    Grp(index, Alt(<<Sq(<<Cls("01"), Digit>>), Sq(<<Lit("2"), Cls("0123")>>)>>))
\* ([01]?\d|2[0-3])
Hour12Group(index) ==
    Grp(index, Alt(<<Sq(<<Opt(Cls("01")), Digit>>), Sq(<<Lit("2"), Cls("0123")>>)>>))
\* ([0-5]\d)
Sixty2Group(index) == Grp(index, Sq(<<Cls("012345"), Digit>>))
\* (0?[0-9]|[1-5]\d)
Sixty12Group(index) ==
    Grp(index, Alt(<<Sq(<<Opt(Lit("0")), Digit>>), Sq(<<Cls("12345"), Digit>>)>>))

\* A CJK particle: no character of an ASCII text.
Particle == Cls("")

datetime_patterns ==
    << [label |-> "YYYYMMDD_HHMMSS",
        pattern |-> [ngroups |-> 6, alts |-> <<
            <<NotAfterDigit, YearGroup(1), Opt(Cls("._- ")), Month2Group(2),
              Opt(Cls("._- ")), Day2Group(3), Opt(Cls("T _-")), Hour2Group(4),
              Opt(Cls("._- ")), Sixty2Group(5), Opt(Cls("._- ")), Sixty2Group(6),
              NotBeforeDigit>> >>]],
       [label |-> "YYYY-MM-DD HH:MM:SS",
        pattern |-> [ngroups |-> 6, alts |-> <<
            <<NotAfterDigit, YearGroup(1), Cls("./_-"), Month12Group(2),
              Cls("./_-"), Day12Group(3), Opt(Particle), Opt(Cls("T _-")),
              Hour12Group(4), Cls(":._-"), Sixty12Group(5), Cls(":._-"),
              Sixty12Group(6), Opt(Particle), NotBeforeDigit>> >>]] >>

date_patterns ==
    << [label |-> "YYYYMMDD",
        pattern |-> [ngroups |-> 3, alts |-> <<
            <<NotAfterDigit, YearGroup(1), Month2Group(2), Day2Group(3),
              NotBeforeDigit>> >>]],
       [label |-> "YYYY-MM-DD",
        pattern |-> [ngroups |-> 6, alts |-> <<
            <<NotAfterDigit, Year19Group(1), Cls("./_-"), Month12Group(2),
              Cls("./_-"), Day12Group(3), Opt(Particle), NotBeforeDigit>>,
            <<NotAfterDigit, Year20Group(4), Cls("./_-"), Month12Group(5),
              Cls("./_-"), Day12Group(6), Opt(Particle), NotBeforeDigit>> >>]] >>

month_patterns ==
    << [label |-> "YYYYMM",
        pattern |-> [ngroups |-> 2, alts |-> <<
            <<NotAfterDigit, YearGroup(1), Opt(Cls("./_- ")), Month2Group(2),
              NotBeforeDigit>> >>]],
       [label |-> "YYYY-MM",
        pattern |-> [ngroups |-> 2, alts |-> <<
            <<NotAfterDigit, YearGroup(1), Cls("./_-"), Month12Group(2),
              Opt(Particle), NotBeforeDigit>> >>]] >>

year_pattern ==
    [ngroups |-> 1, alts |-> << <<NotAfterDigit, YearGroup(1), NotBeforeDigit>> >>]

-----------------------------------------------------------------------------
(* Candidates as the generators build them *)

PathDatetimeLabels == {"YYYYMMDD_HHMMSS", "YYYY-MM-DD HH:MM:SS"}
PathDateLabels == {"YYYYMMDD", "YYYY-MM-DD"}
PathMonthLabels == {"YYYYMM", "YYYY-MM"}

\* The candidate path_inferred_candidates pushes for a match of the pattern
\* `label` in `scope_name` whose groups read as the wall clock w: a datetime
\* pattern keeps six fields, a date pattern three, a month pattern two and
\* the year pattern one; the rest default to the first day, midnight.
PathCandidate(scope_name, label, w, tz) ==
    LET parsed ==
          IF label \in PathDatetimeLabels
          THEN _build_datetime(w.year, w.month, w.day, w.hour, w.minute, w.second, tz)
          ELSE IF label \in PathDateLabels
          THEN _build_datetime(w.year, w.month, w.day, 0, 0, 0, tz)
          ELSE IF label \in PathMonthLabels
          THEN _build_datetime(w.year, w.month, 1, 0, 0, 0, tz)
          ELSE _build_datetime(w.year, 1, 1, 0, 0, 0, tz)
    IN  TimeCandidate("path:" \o scope_name \o ":" \o label, parsed,
                      "Path inferred by " \o label \o " on " \o scope_name, None)

\* The fs:path candidate fs_candidates wraps around the best path candidate.
FsPathCandidate(path_best) ==
    TimeCandidate("fs:path", path_best.timestamp, "fs path inferred datetime",
                  path_best.source)

-----------------------------------------------------------------------------
(* pathlib: a path is the sequence of the components of an absolute path *)

PathName(path) == IF Len(path) = 0 THEN "" ELSE path[Len(path)]

\* str.rfind(".") + 1: the index of the last dot, 0 when there is none.
RECURSIVE LastDot(_, _)
LastDot(name, i) ==
    IF i = 0 THEN 0
    ELSE IF CharAt(name, i) = "." THEN i
    ELSE LastDot(name, i - 1)

HasSuffix(name) ==
    LET i == LastDot(name, Len(name)) IN 1 < i /\ i < Len(name)

PathSuffix(path) ==
    LET name == PathName(path)
    IN  IF HasSuffix(name) THEN SubSeq(name, LastDot(name, Len(name)), Len(name))
        ELSE ""

PathStem(path) ==
    LET name == PathName(path)
    IN  IF HasSuffix(name) THEN SubSeq(name, 1, LastDot(name, Len(name)) - 1)
        ELSE name

PathParentName(path) == IF Len(path) < 2 THEN "" ELSE path[Len(path) - 1]

RECURSIVE fspath(_)
fspath(path) ==
    IF Len(path) = 0 THEN ""
    ELSE fspath(SubSeq(path, 1, Len(path) - 1)) \o "/" \o path[Len(path)]

-----------------------------------------------------------------------------
(* path_inferred_candidates *)

scopes(path) ==
    << [scope_name |-> "filename", text |-> PathStem(path)],
       [scope_name |-> "basename", text |-> PathName(path)],
       [scope_name |-> "parent", text |-> PathParentName(path)],
       [scope_name |-> "fullpath", text |-> fspath(path)] >>

\* [g for g in match.groups() if g is not None]
RECURSIVE NotNoneGroups(_)
NotNoneGroups(groups) ==
    IF Len(groups) = 0 THEN << >>
    ELSE (IF Head(groups) = "" THEN << >> ELSE <<Head(groups)>>)
         \o NotNoneGroups(Tail(groups))

\* The body of one `for match in pattern.finditer(text)` loop: the wall
\* clock read from the groups, or NoDatetime when the match is skipped for
\* having too few groups.
WallOfMatch(family, groups) ==
    LET g == NotNoneGroups(groups)
    IN  IF family = "datetime"
        THEN (IF Len(g) < 6 THEN NoDatetime
              ELSE Wall(ToInt(g[1]), ToInt(g[2]), ToInt(g[3]),
                        ToInt(g[4]), ToInt(g[5]), ToInt(g[6])))
        ELSE IF family = "date"
        THEN (IF Len(g) < 3 THEN NoDatetime
              ELSE Wall(ToInt(g[1]), ToInt(g[2]), ToInt(g[3]), 0, 0, 0))
        ELSE IF family = "month"
        THEN Wall(ToInt(groups[1]), ToInt(groups[2]), 1, 0, 0, 0)
        ELSE Wall(ToInt(groups[1]), 1, 1, 0, 0, 0)

\* The matches of one `for match in pattern.finditer(text)` loop, each with
\* the wall clock read from its groups.
MatchesOf(pattern, family, scope_name, label, text) ==
    LET read(found) ==
            [i \in 1..Len(found) |->
                [scope_name |-> scope_name, label |-> label, family |-> family,
                 wall |-> WallOfMatch(family, found[i])]]
    IN  read(finditer(pattern, text, 1))

RECURSIVE PatternMatches(_, _, _, _)
PatternMatches(patterns, family, scope_name, text) ==
    IF Len(patterns) = 0 THEN << >>
    ELSE MatchesOf(Head(patterns).pattern, family, scope_name,
                   Head(patterns).label, text)
         \o PatternMatches(Tail(patterns), family, scope_name, text)

\* One iteration of `for scope_name, text in scopes`, in the order of its
\* four pattern loops.
ScopeMatches(scope) ==
    IF scope.text = "" THEN << >>
    ELSE PatternMatches(datetime_patterns, "datetime", scope.scope_name, scope.text)
         \o PatternMatches(date_patterns, "date", scope.scope_name, scope.text)
         \o PatternMatches(month_patterns, "month", scope.scope_name, scope.text)
         \o MatchesOf(year_pattern, "year", scope.scope_name, "YYYY", scope.text)

\* `for scope_name, text in scopes`, from the i-th scope on.
RECURSIVE path_matches_from(_, _)
path_matches_from(ss, i) ==
    IF i > Len(ss) THEN << >>
    ELSE ScopeMatches(ss[i]) \o path_matches_from(ss, i + 1)

path_matches(path) == path_matches_from(scopes(path), 1)

\* push(...) for every match that is not skipped (too few groups, or a
\* date that _build_datetime rejects).
RECURSIVE path_entries(_, _)
path_entries(matches, tz) ==
    IF Len(matches) = 0 THEN << >>
    ELSE LET m == Head(matches)
             candidate == PathCandidate(m.scope_name, m.label, m.wall, tz)
             pushed == IF m.wall.year = 0 \/ candidate.timestamp = NoDatetime
                       THEN << >> ELSE <<candidate>>
         IN  pushed \o path_entries(Tail(matches), tz)

path_precision_level(source) ==
    IF Contains(source, "YYYYMMDD_HHMMSS") \/ Contains(source, "YYYY-MM-DD HH:MM:SS")
    THEN 4
    ELSE IF EndsWith(source, ":YYYYMMDD") \/ EndsWith(source, ":YYYY-MM-DD") THEN 3
    ELSE IF EndsWith(source, ":YYYYMM") \/ EndsWith(source, ":YYYY-MM") THEN 2
    ELSE IF EndsWith(source, ":YYYY") THEN 1
    ELSE 0

precision_key(candidate) ==
    LET precision == path_precision_level(candidate.source)
        ts == candidate.timestamp
    IN  IF precision = 1 THEN <<1, ts.year, 0, 0, 0, 0, 0>>
        ELSE IF precision = 2 THEN <<2, ts.year, ts.month, 0, 0, 0, 0>>
        ELSE IF precision = 3 THEN <<3, ts.year, ts.month, ts.day, 0, 0, 0>>
        ELSE <<4, ts.year, ts.month, ts.day, ts.hour, ts.minute, ts.second>>

\* A variant that keeps the last entry of every precision key.
RECURSIVE unique_results_last(_, _)
unique_results_last(entries, kept) ==
    IF Len(entries) = 0 THEN kept
    ELSE LET candidate == Head(entries)
             seen == \E k \in 1..Len(kept) :
                        precision_key(kept[k]) = precision_key(candidate)
         IN  unique_results_last(
                 Tail(entries),
                 IF seen
                 THEN [k \in 1..Len(kept) |->
                          IF precision_key(kept[k]) = precision_key(candidate)
                          THEN candidate ELSE kept[k]]
                 ELSE Append(kept, candidate))

\* A variant that only lets the next finer level suppress a coarse candidate.
same_timeline_coarser_adjacent(coarse, fine) ==
    LET p_coarse == path_precision_level(coarse.source)
        p_fine == path_precision_level(fine.source)
        a == coarse.timestamp
        b == fine.timestamp
    IN  IF p_coarse <= 0 \/ p_fine # p_coarse + 1 THEN FALSE
        ELSE IF p_coarse = 1 THEN a.year = b.year
        ELSE IF p_coarse = 2 THEN a.year = b.year /\ a.month = b.month
        ELSE a.year = b.year /\ a.month = b.month /\ a.day = b.day

same_timeline_coarser(coarse, fine) ==
    LET p_coarse == path_precision_level(coarse.source)
        p_fine == path_precision_level(fine.source)
        a == coarse.timestamp
        b == fine.timestamp
    IN  IF p_coarse <= 0 \/ p_fine <= p_coarse THEN FALSE
        ELSE IF p_coarse = 1 THEN a.year = b.year
        ELSE IF p_coarse = 2 THEN a.year = b.year /\ a.month = b.month
        ELSE IF p_coarse = 3
        THEN a.year = b.year /\ a.month = b.month /\ a.day = b.day
        ELSE FALSE

\* by_result: the first entry of every precision key, in insertion order.
RECURSIVE unique_results(_, _)
unique_results(entries, kept) ==
    IF Len(entries) = 0 THEN kept
    ELSE LET candidate == Head(entries)
             seen == \E k \in 1..Len(kept) :
                        precision_key(kept[k]) = precision_key(candidate)
         IN  unique_results(Tail(entries),
                            IF seen THEN kept ELSE Append(kept, candidate))

\* The test of the `filtered` loop: some other unique result is finer and
\* on the same timeline.
Suppressed(unique, i) ==
    \E o \in 1..Len(unique) :
        o # i /\ same_timeline_coarser(unique[i], unique[o])

RECURSIVE filtered(_, _)
filtered(unique, i) ==
    IF i > Len(unique) THEN << >>
    ELSE (IF Suppressed(unique, i) THEN << >> ELSE <<unique[i]>>)
         \o filtered(unique, i + 1)

\* sorted(filtered, key=lambda c: c.timestamp.timestamp()): a stable sort
\* by instant (insertion after the last element that is not later).
RECURSIVE InsertByInstant(_, _)
InsertByInstant(done, c) ==
    IF Len(done) = 0 THEN <<c>>
    ELSE IF InstantLess(Timestamp(c.timestamp), Timestamp(done[Len(done)].timestamp))
    THEN Append(InsertByInstant(SubSeq(done, 1, Len(done) - 1), c), done[Len(done)])
    ELSE Append(done, c)

\* A variant that returns the filtered candidates in discovery order.
SortedByInstant_discovery_order(L, done) == done \o L

RECURSIVE SortedByInstant(_, _)
SortedByInstant(L, done) ==
    IF Len(L) = 0 THEN done
    ELSE SortedByInstant(Tail(L), InsertByInstant(done, Head(L)))

\* The stages of path_inferred_candidates; `result` is what it returns.
path_inferred_stages(path, tz) ==
    LET staged(matches, entries, unique) ==
            [status |-> "done", matches |-> matches, entries |-> entries,
             unique_results |-> unique,
             result |-> SortedByInstant(filtered(unique, 1), << >>)]
        deduplicated(matches, entries) ==
            staged(matches, entries, unique_results(entries, << >>))
        pushed(matches) == deduplicated(matches, path_entries(matches, tz))
    IN  pushed(path_matches(path))

path_inferred_candidates(path, tz) == path_inferred_stages(path, tz).result

-----------------------------------------------------------------------------
(* The local time zone, datetime.fromtimestamp and astimezone                *)

\* A zone is its standard UTC offset and its daylight-saving shift, both in
\* minutes; the zone of a fixed offset has no shift.
Zone(standard, dst) == [standard |-> standard, dst |-> dst]
FixedZone(offset) == Zone(offset, 0)

\* The months (of the UTC date) in which a zone with a shift applies it.
DstMonths == 4..9

\* The year of a proleptic Gregorian ordinal (datetime's _ord2ymd).
YearOfOrdinal(n) ==
    LET n0 == n - 1
        n400 == n0 \div 146097
        r400 == n0 % 146097
        n100 == r400 \div 36524
        r100 == r400 % 36524
        n4 == r100 \div 1461
        r4 == r100 % 1461
        n1 == r4 \div 365
        year == n400 * 400 + n100 * 100 + n4 * 4 + n1 + 1
    IN  IF n1 = 4 \/ n100 = 4 THEN year - 1 ELSE year

MonthOfYearDay(year, yday) ==
    CHOOSE month \in 1..12 :
        /\ DaysBeforeMonth(year, month) < yday
        /\ yday <= DaysBeforeMonth(year, month) + DaysInMonth(year, month)

\* datetime.fromtimestamp(t, tz) for t = <<seconds, microseconds>> and a zone
\* of the given fixed offset.
fromtimestamp(t, utcoffset) ==
    LET local == t[1] + utcoffset * 60
        ordinal == EpochOrdinal + (local \div 86400)
        rest == local % 86400
        year == YearOfOrdinal(ordinal)
        yday == ordinal - DaysBeforeYear(year)
        month == MonthOfYearDay(year, yday)
    IN  DateTime(year, month, yday - DaysBeforeMonth(year, month),
                 rest \div 3600, (rest % 3600) \div 60, rest % 60, t[2],
                 utcoffset)

\* The UTC offset the local zone has at an instant.
utcoffset_at(zone, t) ==
    IF fromtimestamp(t, 0).month \in DstMonths
    THEN zone.standard + zone.dst
    ELSE zone.standard

\* datetime.fromtimestamp(x).astimezone(), and
\* datetime.fromtimestamp(x, tz=timezone.utc).astimezone(): the instant in
\* the offset the local zone has then.
local_datetime(t, zone) == fromtimestamp(t, utcoffset_at(zone, t))

-----------------------------------------------------------------------------
(* JSON values, as json.loads builds them *)

JNull == [kind |-> "null"]
JStr(text) == [kind |-> "str", text |-> text]
\* A number read as a POSIX timestamp: <<seconds, microseconds>>.
JNum(seconds, microseconds) == [kind |-> "num", value |-> <<seconds, microseconds>>]
JList(items) == [kind |-> "list", items |-> items]
JDict(fields) == [kind |-> "dict", fields |-> fields]

\* dict.get(key, default)
Get(dict, key, default) ==
    IF key \in DOMAIN dict.fields THEN dict.fields[key] ELSE default

-----------------------------------------------------------------------------
(* parse_datetime (src/common/datetime_utils.py) *)

\* What parse_datetime returns: None, a naive datetime (utcoffset unused) or
\* a zone-aware one.
ParsedNone == [kind |-> "none"]
Naive(value) == [kind |-> "naive", value |-> value]
Aware(value) == [kind |-> "aware", value |-> value]

\* str.strip() and str.replace(" ", "").
RECURSIVE lstrip(_)
lstrip(s) == IF Len(s) > 0 /\ Head(s) = " " THEN lstrip(Tail(s)) ELSE s

RECURSIVE rstrip(_)
rstrip(s) ==
    IF Len(s) > 0 /\ CharAt(s, Len(s)) = " "
    THEN rstrip(SubSeq(s, 1, Len(s) - 1)) ELSE s

strip(s) == rstrip(lstrip(s))

RECURSIVE replace(_, _, _)
replace(s, old, new) ==
    IF Len(s) = 0 THEN ""
    ELSE (IF Head(s) = old THEN new ELSE Head(s)) \o replace(Tail(s), old, new)

\* The regular expression _strptime compiles for "%Y:%m:%d %H:%M:%S".
strptime_pattern ==
    [ngroups |-> 6, alts |-> <<
        << Grp(1, Sq(<<Digit, Digit, Digit, Digit>>)), Lit(":"),
           Grp(2, Alt(<<Sq(<<Lit("1"), Cls("012")>>),
                        Sq(<<Lit("0"), Cls("123456789")>>),
                        Cls("123456789")>>)), Lit(":"),
           Grp(3, Alt(<<Sq(<<Lit("3"), Cls("01")>>),
                        Sq(<<Cls("12"), Digit>>),
                        Sq(<<Lit("0"), Cls("123456789")>>),
                        Cls("123456789"),
                        Sq(<<Lit(" "), Cls("123456789")>>)>>)),
           Plus(Lit(" ")),
           Grp(4, Alt(<<Sq(<<Lit("2"), Cls("0123")>>),
                        Sq(<<Cls("01"), Digit>>), Digit>>)), Lit(":"),
           Grp(5, Alt(<<Sq(<<Cls("012345"), Digit>>), Digit>>)), Lit(":"),
           Grp(6, Alt(<<Sq(<<Lit("6"), Cls("01")>>),
                        Sq(<<Cls("012345"), Digit>>), Digit>>)) >> >>]

\* datetime.strptime(text, "%Y:%m:%d %H:%M:%S"): the naive datetime, or
\* NoDatetime for ValueError (no match, unconverted data, a field out of
\* range).
strptime(text) ==
    LET converted(year, month, day, hour, minute, second) ==
            IF ValidDate(year, month, day, hour, minute, second)
            THEN DateTime(year, month, day, hour, minute, second, 0, 0)
            ELSE NoDatetime
        matched(found) ==
            IF Len(found) = 0 THEN NoDatetime
            ELSE IF found[1][1] # Len(text) + 1 THEN NoDatetime
            ELSE converted(ToInt(found[1][2][1]), ToInt(found[1][2][2]),
                           ToInt(replace(found[1][2][3], " ", "")),
                           ToInt(found[1][2][4]), ToInt(found[1][2][5]),
                           ToInt(found[1][2][6]))
    IN  matched(MatchAt(strptime_pattern, 1, text, 1))

\* The texts datetime.fromisoformat reads in this model: YYYY-MM-DD, then
\* optionally a separator, HH:MM, optionally :SS and a fraction, and
\* optionally an offset [+-]HH, [+-]HHMM or [+-]HH:MM.
TwoDigits == Sq(<<Digit, Digit>>)

isoformat_pattern ==
    [ngroups |-> 10, alts |-> <<
        << Grp(1, Sq(<<Digit, Digit, Digit, Digit>>)), Lit("-"),
           Grp(2, TwoDigits), Lit("-"), Grp(3, TwoDigits),
           Opt(Sq(<< Cls("T _"), Grp(4, TwoDigits), Lit(":"), Grp(5, TwoDigits),
                     Opt(Sq(<<Lit(":"), Grp(6, TwoDigits)>>)),
                     Opt(Sq(<<Lit("."), Grp(7, Opt(Plus(Digit)))>>)),
                     Opt(Sq(<< Grp(8, Cls("+-")), Grp(9, TwoDigits),
                               Opt(Sq(<<Opt(Lit(":")), Grp(10, TwoDigits)>>)) >>))
                  >>)) >> >>]

\* The first way the pattern matches the whole text, as << groups >>.
RECURSIVE WholeMatch(_, _, _)
WholeMatch(results, r, text) ==
    IF r > Len(results) THEN << >>
    ELSE IF results[r][1] = Len(text) + 1 THEN <<results[r][2]>>
    ELSE WholeMatch(results, r + 1, text)

\* The first six digits of a fraction of a second, as microseconds.
Microseconds(fraction) ==
    ToInt(SubSeq(fraction \o "000000", 1, 6))

\* datetime.fromisoformat(text): ParsedNone stands for ValueError.
fromisoformat(text) ==
    LET zoned(sign, value) ==
            IF sign = "" THEN Naive(value) ELSE Aware(value)
        converted(year, month, day, hour, minute, second, fraction, sign,
                  offset) ==
            IF ~ValidDate(year, month, day, hour, minute, second)
               \/ offset >= 1440
            THEN ParsedNone
            ELSE zoned(sign,
                       DateTime(year, month, day, hour, minute, second,
                                Microseconds(fraction),
                                IF sign = "-" THEN -offset ELSE offset))
        matched(found) ==
            IF Len(found) = 0 THEN ParsedNone
            ELSE converted(ToInt(found[1][1]), ToInt(found[1][2]),
                           ToInt(found[1][3]), ToInt(found[1][4]),
                           ToInt(found[1][5]), ToInt(found[1][6]),
                           found[1][7], found[1][8],
                           ToInt(found[1][9]) * 60 + ToInt(found[1][10]))
    IN  matched(WholeMatch(MatchSeq(isoformat_pattern.alts[1], 1, text, 1,
                                    [g \in 1..10 |-> ""]), 1, text))

\* parsed.isoformat() of a naive datetime without microseconds.
isoformat(value) ==
    ZeroPad(value.year, 4) \o "-" \o ZeroPad(value.month, 2) \o "-"
    \o ZeroPad(value.day, 2) \o "T" \o ZeroPad(value.hour, 2) \o ":"
    \o ZeroPad(value.minute, 2) \o ":" \o ZeroPad(value.second, 2)

\* The `try` block of parse_datetime after strptime succeeded: the datetime
\* returned, or ParsedNone when fromisoformat raises ValueError there.
exif_suffixed(parsed, text) ==
    LET colon(suffix) ==
            IF Len(suffix) = 5
            THEN SubSeq(suffix, 1, 3) \o ":" \o SubSeq(suffix, 4, 5)
            ELSE suffix
        zoned(suffix) ==
            IF suffix = "" THEN Naive(parsed)
            ELSE IF suffix = "Z" THEN Aware(parsed)
            ELSE IF InClass(CharAt(suffix, 1), "+-") /\ Len(suffix) \in {5, 6}
            THEN fromisoformat(isoformat(parsed) \o colon(suffix))
            ELSE Naive(parsed)
    IN  zoned(replace(strip(SubSeq(text, 20, Len(text))), " ", ""))

\* parse_datetime(value) for a JSON value; `zone` is the local zone, which
\* astimezone() reads for a number. Every number of the model is a
\* timestamp datetime.fromtimestamp accepts.
parse_datetime(value, zone) ==
    IF value.kind = "num" THEN Aware(local_datetime(value.value, zone))
    ELSE IF value.kind # "str" THEN ParsedNone
    ELSE LET exif(parsed, text) ==
                 IF parsed = NoDatetime THEN ParsedNone
                 ELSE exif_suffixed(parsed, text)
             iso(first, text) ==
                 IF first # ParsedNone THEN first
                 ELSE fromisoformat(replace(text, "Z", "+00:00"))
             parse(text) ==
                 IF text = "" THEN ParsedNone
                 ELSE iso(exif(strptime(Slice(text, 19)), text), text)
         IN  parse(strip(value.text))

\* A variant that reads a naive value as UTC.
with_local_timezone_if_naive_utc(parsed, tz) == parsed.value

\* with_local_timezone_if_naive(value): tz is the offset of
\* datetime.now().astimezone().
with_local_timezone_if_naive(parsed, tz) ==
    IF parsed.kind = "aware" THEN parsed.value
    ELSE [parsed.value EXCEPT !.utcoffset = tz]

-----------------------------------------------------------------------------
(* run_json_command (src/common/process.py) and the metadata generators *)

\* How a subprocess ends: launched is FALSE for FileNotFoundError; stdout is
\* the JSON value it printed, or NotJson for text json.loads rejects.
NotJson == [kind |-> "not json"]
ProcessRun(launched, returncode, stdout) ==
    [launched |-> launched, returncode |-> returncode, stdout |-> stdout]

\* run_json_command(command, require_success=...); JNull is Python's None.
run_json_command(run, require_success) ==
    IF ~run.launched THEN JNull
    ELSE IF require_success /\ run.returncode # 0 THEN JNull
    ELSE IF run.stdout = NotJson THEN JNull
    ELSE run.stdout

priority ==
    << <<"DateTimeOriginal", "EXIF capture datetime">>,
       <<"CreateDate", "Embedded create datetime">>,
       <<"DateTimeDigitized", "Digitized datetime">>,
       <<"CreationDate", "Container create datetime">>,
       <<"TrackCreateDate", "Video track create datetime">>,
       <<"MediaCreateDate", "Video media create datetime">>,
       <<"ModifyDate", "Embedded modify datetime">> >>

\* The candidate a generator appends for a raw field, if it parses.
parsed_candidate(raw, source, note, zone, tz) ==
    LET appended(parsed) ==
            IF parsed = ParsedNone THEN << >>
            ELSE << TimeCandidate(source,
                                  with_local_timezone_if_naive(parsed, tz),
                                  note, None) >>
    IN  appended(parse_datetime(raw, zone))

\* `for field, note in priority`, from the i-th entry on.
RECURSIVE exiftool_fields(_, _, _, _)
exiftool_fields(record, i, zone, tz) ==
    IF i > Len(priority) THEN << >>
    ELSE parsed_candidate(Get(record, priority[i][1], JNull),
                          "exiftool:" \o priority[i][1], priority[i][2], zone, tz)
         \o exiftool_fields(record, i + 1, zone, tz)

\* A variant that reads the fields of every record of the payload.
exiftool_candidates_every_record(run, require_success, zone, tz) ==
    LET payload == run_json_command(run, require_success)
        RECURSIVE every(_)
        every(items) ==
            IF Len(items) = 0 THEN << >>
            ELSE (IF Head(items).kind # "dict" THEN << >>
                  ELSE exiftool_fields(Head(items), 1, zone, tz))
                 \o every(Tail(items))
    IN  IF payload.kind # "list" THEN << >> ELSE every(payload.items)

exiftool_candidates(run, require_success, zone, tz) ==
    LET payload == run_json_command(run, require_success)
    IN  IF payload.kind # "list" THEN << >>
        ELSE IF Len(payload.items) = 0 THEN << >>
        ELSE IF payload.items[1].kind # "dict" THEN << >>
        ELSE exiftool_fields(payload.items[1], 1, zone, tz)

EmptyDict == JDict(<< >>)
AttributeError == "AttributeError: object has no attribute 'get'"

\* `for idx, stream in enumerate(streams)`, from the stream of index idx on.
RECURSIVE ffprobe_streams(_, _, _, _)
ffprobe_streams(streams, idx, zone, tz) ==
    IF idx >= Len(streams) THEN << >>
    ELSE LET stream == streams[idx + 1]
             tags == IF stream.kind = "dict" THEN Get(stream, "tags", EmptyDict)
                     ELSE JNull
         IN  (IF tags.kind # "dict" THEN << >>
              ELSE parsed_candidate(
                       Get(tags, "creation_time", JNull),
                       "ffprobe:streams[" \o ZeroPad(idx, 1)
                           \o "].tags.creation_time",
                       "ffprobe stream creation_time", zone, tz))
             \o ffprobe_streams(streams, idx + 1, zone, tz)

\* ffprobe_candidates: payload.get("format", {}).get(...) raises
\* AttributeError when "format" is present and is no dict.
ffprobe_candidates(run, require_success, zone, tz) ==
    LET payload == run_json_command(run, require_success)
        format == Get(payload, "format", EmptyDict)
        format_tags == Get(format, "tags", EmptyDict)
        streams == Get(payload, "streams", JList(<< >>))
    IN  IF payload.kind # "dict" THEN Returned(<< >>)
        ELSE IF format.kind # "dict" THEN Raised(AttributeError)
        ELSE Returned((IF format_tags.kind # "dict" THEN << >>
                       ELSE parsed_candidate(
                                Get(format_tags, "creation_time", JNull),
                                "ffprobe:format.tags.creation_time",
                                "ffprobe container creation_time", zone, tz))
                      \o
                      (IF streams.kind # "list" THEN << >>
                       ELSE ffprobe_streams(streams.items, 0, zone, tz)))

-----------------------------------------------------------------------------
(* fs_candidates *)

\* os.stat_result: st_birthtime exists on some platforms only; the times are
\* POSIX timestamps <<seconds, microseconds>>. NoStat is a missing file.
StatResult(has_birthtime, st_birthtime, st_mtime, st_ctime) ==
    [exists |-> TRUE, has_birthtime |-> has_birthtime,
     st_birthtime |-> st_birthtime, st_mtime |-> st_mtime, st_ctime |-> st_ctime]
NoStat ==
    [exists |-> FALSE, has_birthtime |-> FALSE, st_birthtime |-> <<0, 0>>,
     st_mtime |-> <<0, 0>>, st_ctime |-> <<0, 0>>]

FileNotFoundError == "FileNotFoundError"

\* A variant that leaves out a change time equal to the modification time.
fs_times_distinct(st, zone) ==
    (IF st.has_birthtime
     THEN << TimeCandidate("fs:birthtime", local_datetime(st.st_birthtime, zone),
                           "fs birthtime", None) >>
     ELSE << >>)
    \o << TimeCandidate("fs:mtime", local_datetime(st.st_mtime, zone),
                        "fs mtime", None) >>
    \o (IF st.st_ctime = st.st_mtime THEN << >>
        ELSE << TimeCandidate("fs:ctime", local_datetime(st.st_ctime, zone),
                              "fs ctime", None) >>)

\* The candidates of the raw filesystem times (lines 450-470).
fs_times(st, zone) ==
    (IF st.has_birthtime
     THEN << TimeCandidate("fs:birthtime", local_datetime(st.st_birthtime, zone),
                           "fs birthtime", None) >>
     ELSE << >>)
    \o << TimeCandidate("fs:mtime", local_datetime(st.st_mtime, zone),
                        "fs mtime", None),
          TimeCandidate("fs:ctime", local_datetime(st.st_ctime, zone),
                        "fs ctime", None) >>

\* A variant that never adds the fs:path candidate.
fs_path_wrapped_never(inferred_path_candidates) == << >>

\* A variant that wraps the latest path candidate instead of the best one.
fs_path_wrapped_latest(inferred_path_candidates) ==
    IF Len(inferred_path_candidates) = 0 THEN << >>
    ELSE << FsPathCandidate(
                inferred_path_candidates[Len(inferred_path_candidates)]) >>

\* The fs:path candidate appended when the path yields candidates
\* (lines 472-482).
fs_path_wrapped(inferred_path_candidates) ==
    IF Len(inferred_path_candidates) = 0 THEN << >>
    ELSE << FsPathCandidate(choose_most_likely(inferred_path_candidates).value) >>

\* A variant that takes the first filesystem candidate for the best one.
fs_candidates_first(path, st, zone, tz) ==
    LET candidates == fs_times(st, zone)
                      \o fs_path_wrapped(path_inferred_candidates(path, tz))
    IN  IF ~st.exists THEN Raised(FileNotFoundError)
        ELSE Returned([candidates |-> candidates, most_likely |-> candidates[1]])

\* fs_candidates(file_path): the pair (candidates, most_likely) returned, or
\* the error file_path.stat() raises.
fs_candidates(path, st, zone, tz) ==
    LET pair(candidates) ==
            Returned([candidates |-> candidates,
                      most_likely |-> choose_most_likely(candidates).value])
    IN  IF ~st.exists THEN Raised(FileNotFoundError)
        ELSE pair(fs_times(st, zone)
                    \o fs_path_wrapped(path_inferred_candidates(path, tz)))

-----------------------------------------------------------------------------
(* collect_file_datetime_context *)

IMAGE_EXTENSIONS ==
    {".jpg", ".jpeg", ".png", ".heic", ".heif", ".gif", ".bmp", ".tif", ".tiff",
     ".webp", ".dng", ".raw", ".arw", ".cr2", ".cr3", ".nef", ".orf", ".rw2"}

VIDEO_EXTENSIONS ==
    {".mp4", ".mov", ".m4v", ".avi", ".mkv", ".3gp", ".mts", ".m2ts", ".mpg",
     ".mpeg", ".wmv", ".webm"}

Uppercase == "ABCDEFGHIJKLMNOPQRSTUVWXYZ"
Lowercase == "abcdefghijklmnopqrstuvwxyz"

\* str.lower()
RECURSIVE lower(_)
lower(s) ==
    IF Len(s) = 0 THEN ""
    ELSE (IF InClass(Head(s), Uppercase)
          THEN CharAt(Lowercase,
                      CHOOSE i \in 1..Len(Uppercase) : CharAt(Uppercase, i) = Head(s))
          ELSE Head(s))
         \o lower(Tail(s))

\* A variant that lets the flag send image files to ffprobe too.
wants_ffprobe_any_non_video(path, include_ffprobe_for_unknown) ==
    LET suffix == lower(PathSuffix(path))
        is_video == suffix \in VIDEO_EXTENSIONS
    IN  is_video \/ (include_ffprobe_for_unknown /\ ~is_video)

\* The condition under which ffprobe is consulted (line 505).
wants_ffprobe(path, include_ffprobe_for_unknown) ==
    LET suffix == lower(PathSuffix(path))
        is_video == suffix \in VIDEO_EXTENSIONS
        is_image == suffix \in IMAGE_EXTENSIONS
    IN  is_video \/ (include_ffprobe_for_unknown /\ ~is_image /\ ~is_video)

\* The tools collect_file_datetime_context runs on the file: exiftool always
\* (lines 499-504), ffprobe under the condition of line 505.
tools_invoked(path, include_ffprobe_for_unknown) ==
    {"exiftool"}
    \cup (IF wants_ffprobe(path, include_ffprobe_for_unknown)
          THEN {"ffprobe"} ELSE {})

FileDatetimeContext(candidates, fs_most_likely, media_most_likely, most_likely) ==
    [candidates |-> candidates, fs_most_likely |-> fs_most_likely,
     media_most_likely |-> media_most_likely, most_likely |-> most_likely]

\* list.index(x): the 0-based index of the first element equal to x.
\* Every candidate looked up is an element of the list, so ValueError is
\* never raised.
index(L, x) == (CHOOSE i \in 1..Len(L) :
                    /\ CandidateEq(L[i], x)
                    /\ \A j \in 1..(i - 1) : ~CandidateEq(L[j], x)) - 1

\* media_most_likely (TimeCandidate | None) is a sequence of no or one
\* candidate.
media_best(media_candidates) ==
    IF Len(media_candidates) = 0 THEN << >>
    ELSE << choose_most_likely(media_candidates).value >>

\* A variant that prefers the media-best candidate whenever there is one.
fuse_media_first(fs_most_likely, media_most_likely) ==
    IF Len(media_most_likely) > 0 THEN media_most_likely[1] ELSE fs_most_likely

\* Lines 519-522: the best of the pair [fs_most_likely, media_most_likely].
fuse(fs_most_likely, media_most_likely) ==
    choose_most_likely(<<fs_most_likely>> \o media_most_likely).value

\* A variant that looks the filesystem-best up in fs_all instead of the
\* merged list.
build_context_unshifted(media_candidates, fs_all, fs_most_likely, media_most_likely, most_likely) ==
    LET candidates == media_candidates \o fs_all
    IN  FileDatetimeContext(
            candidates,
            index(fs_all, fs_most_likely),
            IF Len(media_most_likely) > 0
            THEN index(candidates, media_most_likely[1]) ELSE -1,
            index(candidates, most_likely))

\* A variant that publishes 1-based indices.
\* A variant that lists the filesystem candidates before the media ones.
build_context_fs_first(media_candidates, fs_all, fs_most_likely, media_most_likely, most_likely) ==
    LET candidates == fs_all \o media_candidates
    IN  FileDatetimeContext(
            candidates,
            index(candidates, fs_most_likely),
            IF Len(media_most_likely) > 0
            THEN index(candidates, media_most_likely[1]) ELSE -1,
            index(candidates, most_likely))

build_context_one_based(media_candidates, fs_all, fs_most_likely, media_most_likely, most_likely) ==
    LET candidates == media_candidates \o fs_all
    IN  FileDatetimeContext(
            candidates,
            index(candidates, fs_most_likely) + 1,
            IF Len(media_most_likely) > 0
            THEN index(candidates, media_most_likely[1]) + 1 ELSE -1,
            index(candidates, most_likely) + 1)

\* Lines 524-534: the merged list and the three published indices.
build_context(media_candidates, fs_all, fs_most_likely, media_most_likely, most_likely) ==
    LET candidates == media_candidates \o fs_all
    IN  FileDatetimeContext(
            candidates,
            index(candidates, fs_most_likely),
            IF Len(media_most_likely) > 0
            THEN index(candidates, media_most_likely[1]) ELSE -1,
            index(candidates, most_likely))

\* collect_file_datetime_context(file_path, allow_nonzero_tool_exit=...,
\* include_ffprobe_for_unknown=...) in a world where the two subprocesses
\* end as exif_run and probe_run, file_path.stat() gives st and the local
\* zone is `zone`, at offset tz now: the context returned, or the error
\* raised.
collect_file_datetime_context(path, allow_nonzero_tool_exit, include_ffprobe_for_unknown, exif_run, probe_run, st, zone, tz) ==
    LET require_success == ~allow_nonzero_tool_exit
        fused(probed, media_candidates, media_most_likely, fs) ==
            IF probed.status = "raised" THEN probed
            ELSE IF fs.status = "raised" THEN fs
            ELSE Returned(build_context(
                              media_candidates, fs.value.candidates,
                              fs.value.most_likely, media_most_likely,
                              fuse(fs.value.most_likely, media_most_likely)))
        gathered(exif, probed, fs) ==
            fused(probed, exif \o probed.value,
                  media_best(exif \o probed.value), fs)
    IN  gathered(exiftool_candidates(exif_run, require_success, zone, tz),
                 IF wants_ffprobe(path, include_ffprobe_for_unknown)
                 THEN ffprobe_candidates(probe_run, require_success, zone, tz)
                 ELSE Returned(<< >>),
                 fs_candidates(path, st, zone, tz))

-----------------------------------------------------------------------------
(* Inputs of the ranking engine *)

\* Largest distance, in hours, of an embedded UTC offset from UTC.
MaxOffsetHours == 10

EmbeddedOffsets == {-(MaxOffsetHours * 60), 0, MaxOffsetHours * 60}

LocalOffsets == {0, 60}

\* Wall clocks around a year boundary and inside one year.
Walls ==
    { Wall(2021, 12, 1, 0, 0, 0), Wall(2021, 12, 31, 23, 0, 0),
      Wall(2022, 1, 1, 1, 0, 0) }

AtWall(w, tz) ==
    DateTime(w.year, w.month, w.day, w.hour, w.minute, w.second, 0, tz)

\* Metadata candidates keep the offset embedded in the value, or get the
\* local one; filesystem and path candidates carry the local offset.
MediaUniverse(tz) ==
    { TimeCandidate("exiftool:DateTimeOriginal", AtWall(w, off),
                    "EXIF capture datetime", None) :
        w \in Walls, off \in EmbeddedOffsets \cup {tz} }

FsUniverse(tz) ==
    { TimeCandidate("fs:mtime", AtWall(w, tz), "fs mtime", None) : w \in Walls }

PathUniverse(tz) ==
    { PathCandidate("filename", label, w, tz) :
        label \in {"YYYY", "YYYY-MM-DD", "YYYYMMDD_HHMMSS"}, w \in Walls }

WrappedUniverse(tz) ==
    { FsPathCandidate(PathCandidate("parent", label, w, tz)) :
        label \in {"YYYY", "YYYYMM", "YYYYMMDD"}, w \in Walls }

CandidateUniverse(tz) ==
    MediaUniverse(tz) \cup FsUniverse(tz) \cup PathUniverse(tz)
    \cup WrappedUniverse(tz)

\* Values of the variables an operation does not read.
NoFile == <<>>
Idle ==
    /\ file_path = NoFile
    /\ exiftool_run = NotRun
    /\ ffprobe_run = NotRun
    /\ stat = NotRun
    /\ flags = NotRun
    /\ path_trace = NotRun
    /\ ctx = NotRun
    /\ invoked = {}
    /\ parse_input = NotRun
    /\ parse_output = NotRun

-----------------------------------------------------------------------------
(* SpecCompare: _compare_candidate over every ordered pair of three          *)
(* candidates.                                                               *)

InitCompare ==
    /\ local_offset \in LocalOffsets
    /\ tzdata = FixedZone(local_offset)
    /\ cands \in [1..3 -> CandidateUniverse(local_offset)]
    /\ cmp = NotRun
    /\ ranked = NotRun
    /\ calls = << >>
    /\ generated = NotRun
    /\ ServerIdle
    /\ OrganizerIdle
    /\ Idle

Compare ==
    /\ cmp = NotRun
    /\ cmp' = [status |-> "done", result |-> [i \in 1..3 |-> [j \in 1..3 |->
                  _compare_candidate(cands[i], cands[j])]]]
    /\ UNCHANGED <<local_offset, tzdata, cands, ranked, file_path, exiftool_run,
                   ffprobe_run, stat, flags, path_trace, ctx, invoked,
                   parse_input, parse_output, calls>>
    /\ UNCHANGED generated
    /\ UNCHANGED server_vars
    /\ UNCHANGED organizer_vars

NextCompare == Compare

SpecCompare == InitCompare /\ [][NextCompare]_vars

Compared == cmp.status = "done"

Finer(a, b) == _precision_digits(a) > _precision_digits(b)

Earlier(a, b) == InstantLess(Timestamp(a.timestamp), Timestamp(b.timestamp))

\* C2: _compare_candidate is a strict weak ordering over all candidates:
\* compare(a,b) = -compare(b,a), compare(a,a) = 0, and "ranks better" is
\* transitive, so no ranking cycle exists.
C2_StrictWeakOrdering ==
    Compared =>
        \A i, j, k \in 1..3 :
            /\ cmp.result[i][j] = -cmp.result[j][i]
            /\ cmp.result[i][i] = 0
            /\ (cmp.result[i][j] < 0 /\ cmp.result[j][k] < 0
                    => cmp.result[i][k] < 0)

\* C4: of two candidates whose precision-truncated tokens are
\* prefix-compatible and whose precision digit counts differ, the one with
\* the higher precision ranks strictly better, whichever has the earlier raw
\* instant.
C4_FinerWinsOnPrefix ==
    Compared =>
        \A i, j \in 1..3 :
            (_has_prefix_relation(cands[i], cands[j]) /\ Finer(cands[i], cands[j]))
                => (cmp.result[i][j] = -1 /\ cmp.result[j][i] = 1)

\* C4 witness: one comparison where the finer candidate of a
\* prefix-compatible pair has the later raw instant and one where it has the
\* earlier raw instant.
C4_Witness ==
    /\ Compared
    /\ \E i, j \in 1..3 :
          /\ _has_prefix_relation(cands[i], cands[j])
          /\ Finer(cands[i], cands[j])
          /\ Earlier(cands[j], cands[i])
    /\ \E i, j \in 1..3 :
          /\ _has_prefix_relation(cands[i], cands[j])
          /\ Finer(cands[i], cands[j])
          /\ Earlier(cands[i], cands[j])

-----------------------------------------------------------------------------
(* SpecTie: _compare_candidate over candidates that share an instant.        *)

\* Candidates at or around 2022-01-01T00:00:00Z: two EXIF fields that name
\* that instant in three zones, the date and the year as path candidates in
\* the local zone, and an older filesystem time.
TieUniverse(tz) ==
    { TimeCandidate("exiftool:DateTimeOriginal",
                    AtWall(Wall(2021, 12, 31, 23, 0, 0), -60),
                    "EXIF capture datetime", None),
      TimeCandidate("exiftool:DateTimeOriginal",
                    AtWall(Wall(2022, 1, 1, 1, 0, 0), 60),
                    "EXIF capture datetime", None),
      TimeCandidate("exiftool:CreateDate",
                    AtWall(Wall(2022, 1, 1, 0, 0, 0), 0),
                    "Embedded create datetime", None),
      FsPathCandidate(PathCandidate("parent", "YYYYMMDD",
                                    Wall(2022, 1, 1, 0, 0, 0), tz)),
      PathCandidate("filename", "YYYY", Wall(2022, 1, 1, 0, 0, 0), tz),
      TimeCandidate("fs:mtime", AtWall(Wall(2021, 12, 1, 0, 0, 0), tz),
                    "fs mtime", None) }

InitTie ==
    /\ local_offset \in LocalOffsets
    /\ tzdata = FixedZone(local_offset)
    /\ cands \in [1..3 -> TieUniverse(local_offset)]
    /\ cmp = NotRun
    /\ ranked = NotRun
    /\ calls = << >>
    /\ generated = NotRun
    /\ ServerIdle
    /\ OrganizerIdle
    /\ Idle

SpecTie == InitTie /\ [][NextCompare]_vars

SameInstant(a, b) == Timestamp(a.timestamp) = Timestamp(b.timestamp)

SamePrecision(a, b) == _precision_digits(a) = _precision_digits(b)

\* The effective source label of a is lexicographically smaller than b's.
LabelBefore(a, b) == StrLess(_candidate_from(a), _candidate_from(b))

\* What C19 says of the ordered pair (a, b) whose comparison gave `result`.
RanksAsClaimed(a, b, result) ==
    /\ (~_has_prefix_relation(a, b) \/ SamePrecision(a, b)) =>
          /\ Earlier(a, b) => result < 0
          /\ Earlier(b, a) => result > 0
          /\ (SameInstant(a, b) /\ Finer(a, b)) => result < 0
          /\ (SameInstant(a, b) /\ Finer(b, a)) => result > 0
          /\ (SameInstant(a, b) /\ SamePrecision(a, b) /\ LabelBefore(a, b))
                => result < 0
          /\ (SameInstant(a, b) /\ SamePrecision(a, b) /\ LabelBefore(b, a))
                => result > 0
    /\ result = 0 <=>
          /\ SameInstant(a, b)
          /\ SamePrecision(a, b)
          /\ _candidate_from(a) = _candidate_from(b)

\* C19: when two candidates are not prefix-compatible or have equal
\* precision, the one with the earlier raw instant ranks better; at equal
\* instants the one of higher precision ranks better; at equal precision
\* too, the one with the lexicographically smaller effective source label
\* (origin_source if present, else source) ranks better; the comparator
\* returns "equal" only when instant, precision and effective source label
\* all coincide.
C19_ChronologicalThenTieBreaks ==
    Compared =>
        \A i, j \in 1..3 : RanksAsClaimed(cands[i], cands[j], cmp.result[i][j])

\* C19 witness: three comparisons at one instant: candidates that are not
\* prefix-compatible and differ in precision, candidates of equal precision
\* that differ in their label, and two different candidates that compare
\* equal.
C19_Witness ==
    /\ Compared
    /\ SameInstant(cands[1], cands[2])
    /\ ~_has_prefix_relation(cands[1], cands[2])
    /\ Finer(cands[1], cands[2])
    /\ cmp.result[1][2] = -1
    /\ SameInstant(cands[1], cands[3])
    /\ SamePrecision(cands[1], cands[3])
    /\ LabelBefore(cands[3], cands[1])
    /\ cmp.result[3][1] = -1
    /\ \E a, b \in TieUniverse(local_offset) :
          a # b /\ _compare_candidate(a, b) = 0

-----------------------------------------------------------------------------
(* SpecChoose: choose_most_likely on a list of up to MaxLen candidates.      *)

\* Longest candidate list handed to choose_most_likely.
MaxLen == 3

ChooseUniverse(tz) ==
    { TimeCandidate("exiftool:DateTimeOriginal", AtWall(w, -(MaxOffsetHours * 60)),
                    "EXIF capture datetime", None) : w \in Walls }
    \cup { TimeCandidate("exiftool:CreateDate", AtWall(w, tz),
                         "Embedded create datetime", None) : w \in Walls }
    \cup FsUniverse(tz)
    \cup { FsPathCandidate(PathCandidate("parent", label, w, tz)) :
             label \in {"YYYY", "YYYYMMDD"}, w \in Walls }

InitChoose ==
    /\ local_offset \in LocalOffsets
    /\ tzdata = FixedZone(local_offset)
    /\ \E n \in 0..MaxLen : cands \in [1..n -> ChooseUniverse(local_offset)]
    /\ cmp = NotRun
    /\ ranked = NotRun
    /\ calls = << >>
    /\ generated = NotRun
    /\ ServerIdle
    /\ OrganizerIdle
    /\ Idle

Choose ==
    /\ ranked = NotRun
    /\ ranked' = choose_most_likely(cands)
    /\ UNCHANGED <<local_offset, tzdata, cands, cmp, file_path, exiftool_run,
                   ffprobe_run, stat, flags, path_trace, ctx, invoked,
                   parse_input, parse_output, calls>>
    /\ UNCHANGED generated
    /\ UNCHANGED server_vars
    /\ UNCHANGED organizer_vars

NextChoose == Choose

SpecChoose == InitChoose /\ [][NextChoose]_vars

\* C3: the candidate choose_most_likely returns for a non-empty list is a
\* minimum of the list: no element ranks strictly better than it.
C3_ReturnsMinimum ==
    ranked.status = "returned" =>
        \A i \in 1..Len(cands) : _compare_candidate(cands[i], ranked.value) >= 0

\* C7: choose_most_likely raises the no-candidates RuntimeError on an empty
\* list and never returns a sentinel; on a non-empty list it returns an
\* element of the list and never raises.
C7_RaisesOnlyOnEmpty ==
    ranked.status # "not run" =>
        /\ Len(cands) = 0 =>
              (ranked.status = "raised" /\ ranked.error = NoCandidatesError)
        /\ Len(cands) > 0 =>
              (ranked.status = "returned"
               /\ \E i \in 1..Len(cands) : ranked.value = cands[i])

\* C7 witness: the call on the empty list has raised.
C7_Witness == Len(cands) = 0 /\ ranked.status = "raised"

\* The orders in which a list of n elements can be handed over.
Orders(n) ==
    {f \in [1..n -> 1..n] : \A i, j \in 1..n : i # j => f[i] # f[j]}

DistinctLabels(candidates) ==
    \A i, j \in 1..Len(candidates) :
        i # j => _candidate_from(candidates[i]) # _candidate_from(candidates[j])

\* C24: choose_most_likely does not depend on input order: for every list
\* whose candidates have pairwise distinct effective source labels, every
\* permutation of the list yields the same returned candidate.
C24_ChoiceIgnoresOrder ==
    (ranked # NotRun /\ DistinctLabels(cands)) =>
        \A f \in Orders(Len(cands)) :
            choose_most_likely([i \in 1..Len(cands) |-> cands[f[i]]]) = ranked

-----------------------------------------------------------------------------
(* SpecTwice: repeated calls of choose_most_likely and sort_candidates on    *)
(* one list.                                                                 *)

\* Most calls made on the list.
MaxCalls == 4

\* Candidates that _compare_candidate ranks in a cycle, and an early one.
TwiceUniverse(tz) ==
    { TimeCandidate("exiftool:DateTimeOriginal",
                    AtWall(Wall(2021, 12, 31, 23, 0, 0), -(MaxOffsetHours * 60)),
                    "EXIF capture datetime", None),
      TimeCandidate("exiftool:DateTimeOriginal",
                    AtWall(Wall(2022, 1, 1, 1, 0, 0), -(MaxOffsetHours * 60)),
                    "EXIF capture datetime", None),
      FsPathCandidate(PathCandidate("parent", "YYYYMMDD",
                                    Wall(2022, 1, 1, 1, 0, 0), tz)),
      TimeCandidate("fs:mtime", AtWall(Wall(2021, 12, 1, 0, 0, 0), tz),
                    "fs mtime", None) }

InitTwice ==
    /\ local_offset \in LocalOffsets
    /\ tzdata = FixedZone(local_offset)
    /\ \E n \in 0..MaxLen : cands \in [1..n -> TwiceUniverse(local_offset)]
    /\ cmp = NotRun
    /\ ranked = NotRun
    /\ calls = << >>
    /\ generated = NotRun
    /\ ServerIdle
    /\ OrganizerIdle
    /\ Idle

\* A call of choose_most_likely(cands), logged with the list it was given.
CallChoose ==
    /\ Len(calls) < MaxCalls
    /\ calls' = Append(calls, [operation |-> "choose_most_likely",
                               argument |-> cands,
                               result |-> choose_most_likely(cands)])
    /\ cands' = IF Len(cands) = 0 THEN cands ELSE after_sorted(cands)
    /\ UNCHANGED <<local_offset, tzdata, cmp, ranked, file_path, exiftool_run,
                   ffprobe_run, stat, flags, path_trace, ctx, invoked,
                   parse_input, parse_output>>
    /\ UNCHANGED generated
    /\ UNCHANGED server_vars
    /\ UNCHANGED organizer_vars

\* A call of sort_candidates(cands), logged with the list it was given.
CallSort ==
    /\ Len(calls) < MaxCalls
    /\ calls' = Append(calls, [operation |-> "sort_candidates",
                               argument |-> cands,
                               result |-> Returned(sort_candidates(cands))])
    /\ cands' = after_sorted(cands)
    /\ UNCHANGED <<local_offset, tzdata, cmp, ranked, file_path, exiftool_run,
                   ffprobe_run, stat, flags, path_trace, ctx, invoked,
                   parse_input, parse_output>>
    /\ UNCHANGED generated
    /\ UNCHANGED server_vars
    /\ UNCHANGED organizer_vars

NextTwice == CallChoose \/ CallSort

SpecTwice == InitTwice /\ [][NextTwice]_vars

-----------------------------------------------------------------------------
(* SpecPath: path_inferred_candidates on a path <<directory, parent, name>>. *)

PathDirectories == {"data", "2020"}

PathParents ==
    {"photos", "2021", "2021-06", "20210604", "2022", "trip 2021-07-01"}

PathStems ==
    {"clip", "IMG_20210604_101112", "IMG_20210604", "IMG_20220430", "2021",
     "2021-06", "2021-06-04 10.11.12", "20210230_101112", "20210701_000000",
     "2021-06-04", "202106", "VID_2022"}

PathSuffixes == {".jpg", ".mp4"}

FilePaths ==
    { <<d, p, s \o x>> :
        d \in PathDirectories, p \in PathParents, s \in PathStems, x \in PathSuffixes }

InitPath ==
    /\ local_offset \in LocalOffsets
    /\ tzdata = FixedZone(local_offset)
    /\ file_path \in FilePaths
    /\ cands = << >>
    /\ cmp = NotRun
    /\ ranked = NotRun
    /\ exiftool_run = NotRun
    /\ ffprobe_run = NotRun
    /\ stat = NotRun
    /\ flags = NotRun
    /\ path_trace = NotRun
    /\ ctx = NotRun
    /\ invoked = {}
    /\ parse_input = NotRun
    /\ parse_output = NotRun
    /\ calls = << >>
    /\ generated = NotRun
    /\ ServerIdle
    /\ OrganizerIdle

Extract ==
    /\ path_trace = NotRun
    /\ path_trace' = path_inferred_stages(file_path, local_offset)
    /\ UNCHANGED <<local_offset, tzdata, cands, cmp, ranked, file_path, exiftool_run,
                   ffprobe_run, stat, flags, ctx, invoked, parse_input,
                   parse_output, calls>>
    /\ UNCHANGED generated
    /\ UNCHANGED server_vars
    /\ UNCHANGED organizer_vars

NextPath == Extract

SpecPath == InitPath /\ [][NextPath]_vars

Extracted == path_trace.status = "done"

\* The label of a source path:<scope>:<label> (no scope holds a colon).
RECURSIVE AfterColon(_)
AfterColon(s) ==
    IF Len(s) = 0 THEN ""
    ELSE IF Head(s) = ":" THEN Tail(s)
    ELSE AfterColon(Tail(s))

LabelOf(source) == AfterColon(AfterColon(source))

PathScopeNames == {"filename", "basename", "parent", "fullpath"}

PathLabels ==
    PathDatetimeLabels \cup PathDateLabels \cup PathMonthLabels \cup {"YYYY"}

IsPathSource(source) ==
    \E scope_name \in PathScopeNames, label \in PathLabels :
        source = "path:" \o scope_name \o ":" \o label

\* How fine-grained a path candidate is: 1 year, 2 month, 3 date, 4 datetime.
Granularity(c) ==
    LET label == LabelOf(c.source)
    IN  IF label \in PathDatetimeLabels THEN 4
        ELSE IF label \in PathDateLabels THEN 3
        ELSE IF label \in PathMonthLabels THEN 2
        ELSE 1

\* f is strictly finer than c and falls in c's coarse period.
FinerInPeriod(c, f) ==
    /\ Granularity(f) > Granularity(c)
    /\ c.timestamp.year = f.timestamp.year
    /\ Granularity(c) >= 2 => c.timestamp.month = f.timestamp.month
    /\ Granularity(c) >= 3 => c.timestamp.day = f.timestamp.day

IsReturned(c) ==
    \E r \in 1..Len(path_trace.result) : path_trace.result[r] = c

\* A deduplicated candidate is dropped exactly when a returned candidate is
\* strictly finer and in its coarse period.
DroppedIffFinerSurvivor ==
    \A i \in 1..Len(path_trace.unique_results) :
        LET c == path_trace.unique_results[i]
        IN  (~IsReturned(c)) <=>
                \E r \in 1..Len(path_trace.result) :
                    FinerInPeriod(c, path_trace.result[r])

NoYearOnlyOf(year) ==
    \A r \in 1..Len(path_trace.result) :
        ~(Granularity(path_trace.result[r]) = 1
          /\ path_trace.result[r].timestamp.year = year)

\* C10 as stated: a deduplicated candidate is dropped exactly when a
\* surviving candidate is strictly finer and falls in its coarse period, and
\* no year-only candidate is returned when a full-datetime pattern of the
\* same calendar year was matched in any scope.
C10_SuppressCoarser ==
    Extracted =>
        /\ DroppedIffFinerSurvivor
        /\ \A m \in 1..Len(path_trace.matches) :
              path_trace.matches[m].family = "datetime"
                  => NoYearOnlyOf(path_trace.matches[m].wall.year)

\* C10 amended: as C10, the full-datetime match being one that names a valid
\* calendar date and time (one that became a candidate).
C10_SuppressCoarserOfValid ==
    Extracted =>
        /\ DroppedIffFinerSurvivor
        /\ \A e \in 1..Len(path_trace.entries) :
              Granularity(path_trace.entries[e]) = 4
                  => NoYearOnlyOf(path_trace.entries[e].timestamp.year)

\* C10 witness: a year candidate found in one scope is dropped for a
\* datetime candidate of another scope, and a dropped candidate is itself
\* finer than another dropped one of its period.
C10_Witness ==
    /\ Extracted
    /\ \E i, j \in 1..Len(path_trace.unique_results) :
          LET c == path_trace.unique_results[i]
              f == path_trace.unique_results[j]
          IN  /\ Granularity(c) = 1 /\ Granularity(f) = 4
              /\ FinerInPeriod(c, f)
              /\ ~IsReturned(c)
              /\ ~StartsWith(f.source, "path:parent:")
              /\ StartsWith(c.source, "path:parent:")
    /\ \E i, j \in 1..Len(path_trace.unique_results) :
          LET c == path_trace.unique_results[i]
              f == path_trace.unique_results[j]
          IN  FinerInPeriod(c, f) /\ ~IsReturned(c) /\ ~IsReturned(f)

\* The order in which the scopes are searched.
ScopeOrder == <<"filename", "basename", "parent", "fullpath">>

ScopeRank(c) ==
    CHOOSE k \in 1..Len(ScopeOrder) :
        StartsWith(c.source, "path:" \o ScopeOrder[k] \o ":")

\* Datetime patterns are tried first, then date, month and year patterns.
FamilyRank(c) == 5 - Granularity(c)

\* The precision key of a path candidate: its granularity and the fields of
\* its timestamp down to that granularity.
KeyOf(c) ==
    LET g == Granularity(c)
        ts == c.timestamp
    IN  <<g, ts.year,
          IF g >= 2 THEN ts.month ELSE 0,
          IF g >= 3 THEN ts.day ELSE 0,
          IF g >= 4 THEN <<ts.hour, ts.minute, ts.second>> ELSE <<0, 0, 0>> >>

\* Candidate e was discovered no later than candidate f.
DiscoveredInOrder(e, f) ==
    \/ ScopeRank(e) < ScopeRank(f)
    \/ ScopeRank(e) = ScopeRank(f) /\ FamilyRank(e) <= FamilyRank(f)

\* C20: after deduplication in path_inferred_candidates at most one
\* candidate remains per precision key (year; year and month; year, month
\* and day; the full datetime to the second), and the one kept is the first
\* discovered, the discovery order being scope order (filename, basename,
\* parent, fullpath) and within a scope family order (datetime, date, month,
\* year patterns).
C20_FirstDiscoveredKeptPerKey ==
    Extracted =>
        LET holds(entries, unique) ==
                /\ \A i, j \in 1..Len(unique) :
                      i # j => KeyOf(unique[i]) # KeyOf(unique[j])
                /\ \A e \in 1..Len(entries) :
                      \E u \in 1..Len(unique) :
                          KeyOf(unique[u]) = KeyOf(entries[e])
                /\ \A u \in 1..Len(unique) :
                      \E e \in 1..Len(entries) :
                          /\ entries[e] = unique[u]
                          /\ \A d \in 1..(e - 1) :
                                KeyOf(entries[d]) # KeyOf(unique[u])
                /\ \A d, e \in 1..Len(entries) :
                      d < e => DiscoveredInOrder(entries[d], entries[e])
        IN  holds(path_trace.entries, path_trace.unique_results)

\* C20 witness: one precision key was discovered in two scopes and by two
\* patterns of one scope, and the candidate kept is the one of the first
\* pattern on the filename.
C20_Witness ==
    /\ Extracted
    /\ LET reached(entries, unique) ==
               \E d, e, f \in 1..Len(entries) :
                   /\ d < e /\ e < f
                   /\ KeyOf(entries[d]) = KeyOf(entries[e])
                   /\ KeyOf(entries[e]) = KeyOf(entries[f])
                   /\ ScopeRank(entries[d]) = 1
                   /\ ScopeRank(entries[e]) = 1
                   /\ entries[d].source # entries[e].source
                   /\ ScopeRank(entries[f]) > 1
                   /\ \E u \in 1..Len(unique) : unique[u] = entries[d]
                   /\ \A u \in 1..Len(unique) :
                         unique[u] # entries[e] /\ unique[u] # entries[f]
       IN  reached(path_trace.entries, path_trace.unique_results)

\* Candidate c stands for match m: same scope, same pattern label, and the
\* calendar fields the pattern captured.
StandsFor(c, m) ==
    /\ c.source = "path:" \o m.scope_name \o ":" \o m.label
    /\ c.timestamp.year = m.wall.year
    /\ Granularity(c) >= 2 => c.timestamp.month = m.wall.month
    /\ Granularity(c) >= 3 => c.timestamp.day = m.wall.day

\* C21: the list returned by path_inferred_candidates is sorted by instant
\* in ascending order, holds only candidates that were matched, and holds
\* no two candidates with the same precision key.
C21_ResultSortedMatchedUnique ==
    Extracted =>
        LET holds(result, matches) ==
                /\ \A i, j \in 1..Len(result) :
                      i < j => ~InstantLess(Timestamp(result[j].timestamp),
                                            Timestamp(result[i].timestamp))
                /\ \A i \in 1..Len(result) :
                      \E m \in 1..Len(matches) : StandsFor(result[i], matches[m])
                /\ \A i, j \in 1..Len(result) :
                      i # j => KeyOf(result[i]) # KeyOf(result[j])
        IN  holds(path_trace.result, path_trace.matches)

\* C21 witness: two candidates are returned, and the earlier one was
\* discovered after the later one.
C21_Witness ==
    /\ Extracted
    /\ LET reached(result, entries) ==
               /\ Len(result) >= 2
               /\ InstantLess(Timestamp(result[1].timestamp),
                              Timestamp(result[2].timestamp))
               /\ \E d, e \in 1..Len(entries) :
                     d < e /\ entries[d] = result[2] /\ entries[e] = result[1]
       IN  reached(path_trace.result, path_trace.entries)

\* The digits of a timestamp a label of the extractor speaks for.
LabelDigits(label) ==
    IF label \in PathDatetimeLabels THEN 17
    ELSE IF label \in PathDateLabels THEN 8
    ELSE IF label \in PathMonthLabels THEN 6
    ELSE 4

\* The digits that go with the extractor's precision levels 1 to 4.
LevelDigits == <<4, 6, 8, 17>>

\* C18: for every source label the Path Pattern Extractor emits
\* (path:<scope>:<label> with label YYYYMMDD_HHMMSS, YYYY-MM-DD HH:MM:SS,
\* YYYYMMDD, YYYY-MM-DD, YYYYMM, YYYY-MM, YYYY) the comparator's precision
\* digit count, taken from origin_source when present, is 17, 17, 8, 8, 6,
\* 6, 4 respectively, so it agrees with the extractor's own precision level
\* for that label; every non-path candidate has precision 17.
C18_PrecisionFollowsLabel ==
    Extracted =>
        /\ \A r \in 1..Len(path_trace.result) :
              LET digits(c) ==
                      /\ _precision_digits(c) = LabelDigits(LabelOf(c.source))
                      /\ _precision_digits(FsPathCandidate(c))
                            = LabelDigits(LabelOf(c.source))
                      /\ _precision_digits(c)
                            = LevelDigits[path_precision_level(c.source)]
              IN  digits(path_trace.result[r])
        /\ \A c \in MediaUniverse(local_offset) \cup FsUniverse(local_offset) :
              _precision_digits(c) = 17

-----------------------------------------------------------------------------
(* SpecParse: parse_datetime on a text that starts with an EXIF date/time.   *)

\* EXIF date/times YYYY:MM:DD HH:MM:SS (19 characters) and what they name.
ExifPrefixes ==
    { [text |-> "2021:06:04 10:11:12", wall |-> Wall(2021, 6, 4, 10, 11, 12)],
      [text |-> "2021:12:31 23:59:59", wall |-> Wall(2021, 12, 31, 23, 59, 59)],
      [text |-> "2020:02:29 00:00:00", wall |-> Wall(2020, 2, 29, 0, 0, 0)] }

\* Trailing suffixes: none, Z, an offset of four digits with or without a
\* colon (with the minutes east of UTC it names), and other texts.
NoSuffixes == {"", " "}

ZuluSuffixes == {"Z", " Z"}

OffsetSuffixes ==
    { [text |-> "+0800", minutes |-> 480], [text |-> "+08:00", minutes |-> 480],
      [text |-> "-1000", minutes |-> -600], [text |-> "-10:00", minutes |-> -600],
      [text |-> " +05:30", minutes |-> 330], [text |-> "+0000", minutes |-> 0],
      [text |-> "-2359", minutes |-> -1439], [text |-> "+23:59", minutes |-> 1439] }

OtherSuffixes ==
    { "UTC", " UTC", ".123", "+08", "+080", "z", "+08:00:00", "-", "+08:0",
      "+abcd", "+ab:cd", "-12345" }

ExifSuffixes ==
    NoSuffixes \cup ZuluSuffixes \cup {x.text : x \in OffsetSuffixes}
    \cup OtherSuffixes

InitParse ==
    /\ local_offset \in LocalOffsets
    /\ tzdata = FixedZone(local_offset)
    /\ parse_input \in
          { JStr(lead \o prefix.text \o suffix) :
              lead \in {"", " "}, prefix \in ExifPrefixes, suffix \in ExifSuffixes }
    /\ parse_output = NotRun
    /\ cands = << >>
    /\ cmp = NotRun
    /\ ranked = NotRun
    /\ calls = << >>
    /\ generated = NotRun
    /\ ServerIdle
    /\ OrganizerIdle
    /\ file_path = NoFile
    /\ exiftool_run = NotRun
    /\ ffprobe_run = NotRun
    /\ stat = NotRun
    /\ flags = NotRun
    /\ path_trace = NotRun
    /\ ctx = NotRun
    /\ invoked = {}

Parse ==
    /\ parse_output = NotRun
    /\ parse_output' = [status |-> "done",
                        result |-> parse_datetime(parse_input, tzdata)]
    /\ UNCHANGED <<local_offset, tzdata, cands, cmp, ranked, file_path, exiftool_run,
                   ffprobe_run, stat, flags, path_trace, ctx, invoked,
                   parse_input, calls>>
    /\ UNCHANGED generated
    /\ UNCHANGED server_vars
    /\ UNCHANGED organizer_vars

NextParse == Parse

SpecParse == InitParse /\ [][NextParse]_vars

Parsed == parse_output.status = "done"

\* The input is the EXIF date/time `prefix` followed by `suffix`.
Reads(prefix, suffix) ==
    \E lead \in {"", " "} : parse_input = JStr(lead \o prefix.text \o suffix)

\* C14: parse_datetime on a string whose first 19 characters match
\* YYYY:MM:DD HH:MM:SS always returns an instant: without a suffix the naive
\* date/time, with the suffix Z that date/time in UTC, with a +/- offset of
\* four digits (optional colon) that date/time at that offset, and with any
\* other suffix the naive date/time, the suffix being ignored.
C14_ExifPrefixAlwaysParses ==
    Parsed =>
        \A prefix \in ExifPrefixes :
            /\ \A suffix \in NoSuffixes \cup OtherSuffixes :
                  Reads(prefix, suffix) =>
                      parse_output.result = Naive(AtWall(prefix.wall, 0))
            /\ \A suffix \in ZuluSuffixes :
                  Reads(prefix, suffix) =>
                      parse_output.result = Aware(AtWall(prefix.wall, 0))
            /\ \A suffix \in OffsetSuffixes :
                  Reads(prefix, suffix.text) =>
                      parse_output.result
                          = Aware(AtWall(prefix.wall, suffix.minutes))

-----------------------------------------------------------------------------
(* Spec: collect_file_datetime_context on one file.                          *)

\* Largest number of streams in an ffprobe payload.
MaxStreams == 2

\* A zone without daylight saving and one with it.
LocalZones == {Zone(0, 0), Zone(60, 60)}

\* The POSIX timestamp of a wall clock at a UTC offset.
PosixAt(w, utcoffset) == Timestamp(AtWall(w, utcoffset))

CollectPaths ==
    { <<"data", "photos", "clip.mp4">>,
      <<"data", "photos", "IMG_20220430.jpg">>,
      <<"data", "20220101", "scan.JPG">>,
      <<"data", "2021", "VID_20210604_101112.mov">>,
      <<"data", "photos", "clip.bin">>,
      <<"data", "2021-06", "notes">> }

Flags ==
    [allow_nonzero_tool_exit : BOOLEAN, include_ffprobe_for_unknown : BOOLEAN]

\* An embedded UTC offset of MaxOffsetHours hours behind UTC.
OffsetBehind == "-" \o ZeroPad(MaxOffsetHours, 2) \o ":00"

ExifRecords ==
    { JDict([DateTimeOriginal |-> JStr("2022:05:01 10:00:00")]),
      JDict([DateTimeOriginal |-> JStr("2021:12:31 23:00:00" \o OffsetBehind),
             CreateDate |-> JStr("2022:01:01 01:00:00" \o OffsetBehind)]),
      JDict([DateTimeOriginal |-> JStr("0000:00:00 00:00:00"),
             CreateDate |-> JStr("2021:06:04 10:11:12"),
             ModifyDate |-> JStr("2021:06:04 10:11:12")]),
      JDict([CreateDate |-> JNum(PosixAt(Wall(2021, 6, 1, 0, 0, 0), 0)[1], 0),
             TrackCreateDate |-> JStr("2021-06-01T00:00:00.000000Z")]) }

\* Runs of exiftool that yield no payload or no record.
ExiftoolSilentRuns ==
    { ProcessRun(FALSE, 0, NotJson),
      ProcessRun(TRUE, 0, NotJson),
      ProcessRun(TRUE, 0, JList(<< >>)),
      ProcessRun(TRUE, 0, JList(<< JStr("no record") >>)),
      ProcessRun(TRUE, 0, JDict([DateTimeOriginal |-> JStr("2022:05:01 10:00:00")])) }

\* Runs of exiftool that print a record, one of them exiting with an error.
ExiftoolRecordRuns ==
    { ProcessRun(TRUE, 1,
                 JList(<< JDict([DateTimeOriginal |-> JStr("2022:05:01 10:00:00")]) >>)) }
    \cup { ProcessRun(TRUE, 0, JList(<<record>>)) : record \in ExifRecords }

\* The stream of index idx with a creation_time, one hour later per index.
TaggedStream(idx) ==
    JDict([tags |-> JDict([creation_time |->
              JStr("2021-06-04T1" \o ZeroPad(idx, 1) \o ":11:12.000000Z")])])

UntaggedStream == JDict([codec_type |-> JStr("audio")])

\* n streams, all tagged, or every other one tagged.
TaggedStreams(n) == [i \in 1..n |-> TaggedStream(i - 1)]
MixedStreams(n) ==
    [i \in 1..n |-> IF i % 2 = 1 THEN UntaggedStream ELSE TaggedStream(i - 1)]

ContainerFormat ==
    JDict([tags |-> JDict([creation_time |-> JStr("2021-06-04T10:11:12.000000Z")])])

\* ffprobe missing, failing on a payload without a format dictionary, and
\* exiting with an error after printing a payload.
FfprobeFewRuns ==
    { ProcessRun(FALSE, 0, NotJson),
      ProcessRun(TRUE, 0, JDict([format |-> JNull])),
      ProcessRun(TRUE, 1, JDict([format |-> ContainerFormat])) }

FfprobeRuns ==
    FfprobeFewRuns
    \cup { ProcessRun(TRUE, 0, JList(<< >>)) }
    \cup { ProcessRun(TRUE, 0, JDict([format |-> ContainerFormat,
                                      streams |-> JList(TaggedStreams(n))])) :
             n \in 0..MaxStreams }
    \cup { ProcessRun(TRUE, 0, JDict([streams |-> JList(MixedStreams(n))])) :
             n \in 1..MaxStreams }

\* A file with a birthtime older than its other times, and one without
\* birthtime whose ctime is older than its mtime.
FileStats ==
    { StatResult(TRUE, PosixAt(Wall(2021, 1, 1, 0, 0, 0), 0),
                 PosixAt(Wall(2021, 6, 1, 0, 0, 0), 0),
                 PosixAt(Wall(2021, 6, 1, 0, 0, 0), 0)),
      StatResult(FALSE, <<0, 0>>,
                 PosixAt(Wall(2022, 1, 2, 0, 0, 0), 0),
                 <<PosixAt(Wall(2021, 12, 31, 23, 30, 0), 0)[1], 500000>>) }

\* The inputs: every record run of exiftool with every run of ffprobe on an
\* existing file, and every silent run of exiftool with a few runs of
\* ffprobe on an existing or a missing file. ffprobe_run stays NotRun for a
\* file ffprobe is not run on.
Init ==
    /\ tzdata \in LocalZones
    /\ local_offset \in {tzdata.standard, tzdata.standard + tzdata.dst}
    /\ file_path \in CollectPaths
    /\ flags \in Flags
    /\ \/ /\ exiftool_run \in ExiftoolRecordRuns
          /\ ffprobe_run \in
                IF wants_ffprobe(file_path, flags.include_ffprobe_for_unknown)
                THEN FfprobeRuns ELSE {NotRun}
          /\ stat \in FileStats
       \/ /\ exiftool_run \in ExiftoolSilentRuns
          /\ ffprobe_run \in
                IF wants_ffprobe(file_path, flags.include_ffprobe_for_unknown)
                THEN FfprobeFewRuns ELSE {NotRun}
          /\ stat \in FileStats \cup {NoStat}
    /\ cands = << >>
    /\ cmp = NotRun
    /\ ranked = NotRun
    /\ path_trace = NotRun
    /\ ctx = NotRun
    /\ invoked = {}
    /\ parse_input = NotRun
    /\ parse_output = NotRun
    /\ calls = << >>
    /\ generated = NotRun
    /\ ServerIdle
    /\ OrganizerIdle

Collect ==
    /\ ctx = NotRun
    /\ ctx' = collect_file_datetime_context(
                  file_path, flags.allow_nonzero_tool_exit,
                  flags.include_ffprobe_for_unknown,
                  exiftool_run, ffprobe_run, stat, tzdata, local_offset)
    /\ invoked' = tools_invoked(file_path, flags.include_ffprobe_for_unknown)
    /\ UNCHANGED <<local_offset, tzdata, cands, cmp, ranked, file_path,
                   exiftool_run, ffprobe_run, stat, flags, path_trace,
                   parse_input, parse_output, calls>>
    /\ UNCHANGED generated
    /\ UNCHANGED server_vars
    /\ UNCHANGED organizer_vars

Next == Collect

Spec == Init /\ [][Next]_vars

Collected == ctx.status = "returned"

\* candidates[i] of the returned context, for a published (0-based) index.
At(i) == ctx.value.candidates[i + 1]

\* What the two metadata generators produce for the file.
GeneratedMedia ==
    exiftool_candidates(exiftool_run, ~flags.allow_nonzero_tool_exit,
                        tzdata, local_offset)
    \o (IF wants_ffprobe(file_path, flags.include_ffprobe_for_unknown)
        THEN ffprobe_candidates(ffprobe_run, ~flags.allow_nonzero_tool_exit,
                                tzdata, local_offset).value
        ELSE << >>)

\* C1: in every returned context candidates[most_likely] is
\* candidates[fs_most_likely] or candidates[media_most_likely], never a
\* third candidate, and without a media candidate (media_most_likely = -1)
\* most_likely equals fs_most_likely.
C1_FusionPicksFsOrMedia ==
    Collected =>
        LET c == ctx.value
        IN  /\ \/ At(c.most_likely) = At(c.fs_most_likely)
               \/ /\ c.media_most_likely # -1
                  /\ At(c.most_likely) = At(c.media_most_likely)
            /\ c.media_most_likely = -1 => c.most_likely = c.fs_most_likely

\* C1 witness: several media candidates exist and the filesystem-best, a
\* later element of the merged list, is the overall best.
C1_Witness ==
    /\ Collected
    /\ Len(GeneratedMedia) >= 2
    /\ ctx.value.media_most_likely # -1
    /\ ctx.value.most_likely = ctx.value.fs_most_likely
    /\ ctx.value.most_likely # ctx.value.media_most_likely

\* C5: the overall best is the media-best iff a media-best exists and
\* _compare_candidate ranks it strictly better than the filesystem-best,
\* and is the filesystem-best otherwise.
C5_FusionIsPairMinimum ==
    Collected =>
        LET c == ctx.value
            media_wins ==
                /\ c.media_most_likely # -1
                /\ _compare_candidate(At(c.media_most_likely),
                                      At(c.fs_most_likely)) < 0
        IN  IF media_wins THEN At(c.most_likely) = At(c.media_most_likely)
            ELSE At(c.most_likely) = At(c.fs_most_likely)

\* C5 witness: the media-best wins the fusion although its instant is later
\* than the filesystem-best's (a finer candidate of the same period).
C5_Witness ==
    /\ Collected
    /\ ctx.value.media_most_likely # -1
    /\ ctx.value.most_likely = ctx.value.media_most_likely
    /\ InstantLess(Timestamp(At(ctx.value.fs_most_likely).timestamp),
                   Timestamp(At(ctx.value.media_most_likely).timestamp))

\* C6: in every returned context fs_most_likely and most_likely are valid
\* indices of candidates, media_most_likely is -1 or a valid index, and it
\* is -1 exactly when neither exiftool nor ffprobe produced a candidate.
C6_IndicesValid ==
    Collected =>
        LET c == ctx.value
            n == Len(c.candidates)
        IN  /\ c.fs_most_likely \in 0..(n - 1)
            /\ c.most_likely \in 0..(n - 1)
            /\ c.media_most_likely \in -1..(n - 1)
            /\ c.media_most_likely = -1 <=> Len(GeneratedMedia) = 0

\* C6 witness: the media-best is not the first media candidate and the
\* filesystem-best is the last element of the merged list.
C6_Witness ==
    /\ Collected
    /\ ctx.value.media_most_likely >= 1
    /\ ctx.value.fs_most_likely = Len(ctx.value.candidates) - 1

\* The scenario of C9: no metadata candidate and no date pattern in the path.
FsOnly ==
    /\ Len(GeneratedMedia) = 0
    /\ Len(path_inferred_candidates(file_path, local_offset)) = 0

BirthScenario ==
    /\ stat.has_birthtime
    /\ stat.st_birthtime = PosixAt(Wall(2021, 1, 1, 0, 0, 0), 0)
    /\ stat.st_mtime = PosixAt(Wall(2021, 6, 1, 0, 0, 0), 0)
    /\ stat.st_ctime = PosixAt(Wall(2021, 6, 1, 0, 0, 0), 0)

\* C9: without a metadata candidate and without a date pattern in the path,
\* the filesystem-best is the birthtime, mtime or ctime candidate of the
\* earliest instant, media_most_likely is -1 and the overall best is the
\* filesystem-best; with birthtime 2021-01-01 and mtime and ctime
\* 2021-06-01 it is fs:birthtime.
C9_FsOnlyPicksEarliest ==
    (Collected /\ FsOnly) =>
        LET c == ctx.value
            best == At(c.fs_most_likely)
        IN  /\ best.source \in {"fs:birthtime", "fs:mtime", "fs:ctime"}
            /\ \A i \in 1..Len(c.candidates) :
                  ~InstantLess(Timestamp(c.candidates[i].timestamp),
                               Timestamp(best.timestamp))
            /\ c.media_most_likely = -1
            /\ c.most_likely = c.fs_most_likely
            /\ BirthScenario => best.source = "fs:birthtime"

\* C9 witness: the scenario with birthtime 2021-01-01 on a video.
C9_Witness ==
    /\ Collected
    /\ FsOnly
    /\ BirthScenario
    /\ lower(PathSuffix(file_path)) \in VIDEO_EXTENSIONS

\* C26: whenever the filesystem status lookup succeeds, fs_candidates
\* returns exactly one fs:mtime and one fs:ctime candidate, at most one
\* fs:birthtime and at most one fs:path, in the order birthtime, mtime,
\* ctime, path; the list is therefore never empty and the no-candidates
\* error is unreachable inside collect_file_datetime_context.
C26_FsListNeverEmpty ==
    /\ Collected =>
          LET holds(sources) ==
                  /\ stat.exists
                  /\ sources \in { <<"fs:mtime", "fs:ctime">>,
                                    <<"fs:birthtime", "fs:mtime", "fs:ctime">>,
                                    <<"fs:mtime", "fs:ctime", "fs:path">>,
                                    <<"fs:birthtime", "fs:mtime", "fs:ctime",
                                      "fs:path">> }
                  /\ (sources[1] = "fs:birthtime") <=> stat.has_birthtime
              tail(candidates, n) ==
                  [i \in 1..(Len(candidates) - n) |-> candidates[n + i].source]
          IN  holds(tail(ctx.value.candidates, Len(GeneratedMedia)))
    /\ ctx.status = "raised" => ctx.error # NoCandidatesError

\* C26 witness: a file without birthtime and without media candidate whose
\* path names a date: the context holds fs:mtime, fs:ctime and fs:path.
C26_Witness ==
    /\ Collected
    /\ Len(GeneratedMedia) = 0
    /\ ~stat.has_birthtime
    /\ Len(ctx.value.candidates) = 3
    /\ ctx.value.candidates[3].source = "fs:path"

\* The collection has run, whether it returned a context or raised.
Ran == ctx.status # "not run"

\* ffprobe was run on the file.
FfprobeInvoked == ffprobe_run # NotRun

\* What the ffprobe generator gives for the file's run of ffprobe.
Probed ==
    ffprobe_candidates(ffprobe_run, ~flags.allow_nonzero_tool_exit,
                       tzdata, local_offset)

\* What the exiftool generator gives for the file's run of exiftool.
Exifed ==
    exiftool_candidates(exiftool_run, ~flags.allow_nonzero_tool_exit,
                        tzdata, local_offset)

\* C11: both metadata generators return a list and never raise, whatever the
\* tool invocation gives: a missing executable, a non-zero exit when success
\* is required, output that is not JSON, and JSON of an unexpected shape
\* (wrong top-level type, non-object first record, non-object format, tags
\* or streams entries) all yield an empty or partial candidate list.
C11_GeneratorsNeverRaise ==
    Ran =>
        /\ \A i \in 1..Len(Exifed) : Slice(Exifed[i].source, 9) = "exiftool:"
        /\ FfprobeInvoked =>
              /\ Probed.status = "returned"
              /\ \A i \in 1..Len(Probed.value) :
                    Slice(Probed.value[i].source, 8) = "ffprobe:"

\* C12: the only error collect_file_datetime_context surfaces to its caller
\* is the no-candidates error of choose_most_likely on an empty list; an
\* unparseable value, a tool that is unavailable or fails, and a failing
\* filesystem status lookup are recovered locally and do not propagate.
C12_OnlyNoCandidatesSurfaces ==
    ctx.status = "raised" => ctx.error = NoCandidatesError

-----------------------------------------------------------------------------
(* SpecGenerators: collect_file_datetime_context on files of every kind of   *)
(* extension and path, with the tools installed or missing.                  *)

\* Paths that name two unrelated dates.
TwoDatePaths ==
    { <<"2020", "photos", "IMG_20210604.jpg">>,
      <<"data", "2019-03", "20210701_000000.mp4">> }

\* exiftool missing, printing a date/time without a zone, and printing a
\* number and a date/time in UTC.
GeneratorExiftoolRuns ==
    { ProcessRun(FALSE, 0, NotJson),
      ProcessRun(TRUE, 0,
          JList(<< JDict([DateTimeOriginal |-> JStr("2022:05:01 10:00:00")]) >>)),
      ProcessRun(TRUE, 0,
          JList(<< JDict([CreateDate |->
                              JNum(PosixAt(Wall(2021, 6, 1, 0, 0, 0), 0)[1], 0),
                          TrackCreateDate |->
                              JStr("2021-06-01T00:00:00.000000Z")]) >>)) }

\* ffprobe missing, and printing a container and MaxStreams tagged streams.
GeneratorFfprobeRuns ==
    { ProcessRun(FALSE, 0, NotJson),
      ProcessRun(TRUE, 0, JDict([format |-> ContainerFormat,
                                 streams |-> JList(TaggedStreams(MaxStreams))])) }

InitGenerators ==
    /\ tzdata \in LocalZones
    /\ local_offset \in {tzdata.standard, tzdata.standard + tzdata.dst}
    /\ file_path \in CollectPaths \cup TwoDatePaths
    /\ flags \in Flags
    /\ exiftool_run \in GeneratorExiftoolRuns
    /\ ffprobe_run \in
          IF wants_ffprobe(file_path, flags.include_ffprobe_for_unknown)
          THEN GeneratorFfprobeRuns ELSE {NotRun}
    /\ stat \in FileStats
    /\ cands = << >>
    /\ cmp = NotRun
    /\ ranked = NotRun
    /\ path_trace = NotRun
    /\ ctx = NotRun
    /\ invoked = {}
    /\ parse_input = NotRun
    /\ parse_output = NotRun
    /\ calls = << >>
    /\ generated = NotRun
    /\ ServerIdle
    /\ OrganizerIdle

SpecGenerators == InitGenerators /\ [][Next]_vars

\* fs_all: the list of the filesystem generator, the tail of the merged
\* list after the media candidates (line 524).
FsAll ==
    SubSeq(ctx.value.candidates, Len(GeneratedMedia) + 1,
           Len(ctx.value.candidates))

\* The output of the Path Pattern Extractor for the file.
Inferred == path_inferred_candidates(file_path, local_offset)

FsPathAt(fs_all) == {i \in 1..Len(fs_all) : fs_all[i].source = "fs:path"}

\* C13: the list fs_candidates returns holds an fs:path candidate iff the
\* Path Pattern Extractor returned at least one candidate, and then exactly
\* one, whose timestamp is that of choose_most_likely over the extractor's
\* output and whose origin_source is that candidate's source
\* path:<scope>:<label>; every other candidate has no origin_source, and the
\* second return value is choose_most_likely of exactly the returned list.
C13_FsPathWrapsBestPathCandidate ==
    Collected =>
        LET wraps(wrapped, path_best) ==
                /\ wrapped.timestamp = path_best.timestamp
                /\ wrapped.origin_source = path_best.source
                /\ IsPathSource(path_best.source)
            holds(fs_all, inferred, fs_most_likely) ==
                /\ (FsPathAt(fs_all) # {}) <=> (Len(inferred) > 0)
                /\ Cardinality(FsPathAt(fs_all)) <= 1
                /\ \A i \in FsPathAt(fs_all) :
                      wraps(fs_all[i], choose_most_likely(inferred).value)
                /\ \A i \in (1..Len(fs_all)) \ FsPathAt(fs_all) :
                      fs_all[i].origin_source = None
                /\ fs_most_likely = choose_most_likely(fs_all).value
        IN  holds(FsAll, Inferred, At(ctx.value.fs_most_likely))

\* C13 witness: the extractor returned two candidates of different dates and
\* the fs:path candidate, which wraps the best of them, is the second return
\* value.
C13_Witness ==
    /\ Collected
    /\ LET reached(inferred, fs_most_likely) ==
               /\ Len(inferred) = 2
               /\ inferred[1].timestamp # inferred[2].timestamp
               /\ fs_most_likely.source = "fs:path"
               /\ fs_most_likely.timestamp = inferred[1].timestamp
       IN  reached(Inferred, At(ctx.value.fs_most_likely))

\* A zone-aware datetime: its UTC offset is less than a day.
IsAware(timestamp) ==
    /\ DOMAIN timestamp = {"year", "month", "day", "hour", "minute", "second",
                           "microsecond", "utcoffset"}
    /\ timestamp.utcoffset \in -1439..1439

\* The raw value of the tool output a metadata candidate was parsed from.
RawOf(candidate) ==
    IF StartsWith(candidate.source, "exiftool:")
    THEN Get(exiftool_run.stdout.items[1],
             SubSeq(candidate.source, 10, Len(candidate.source)), JNull)
    ELSE IF candidate.source = "ffprobe:format.tags.creation_time"
    THEN ffprobe_run.stdout.fields.format.fields.tags.fields.creation_time
    ELSE ffprobe_run.stdout.fields.streams
             .items[ToInt(CharAt(candidate.source, 17)) + 1]
             .fields.tags.fields.creation_time

\* The zone of a candidate's timestamp is the one its origin gives it.
ZoneAsClaimed(candidate) ==
    LET read(raw_parsed) ==
            /\ raw_parsed.kind = "naive" =>
                  candidate.timestamp
                      = [raw_parsed.value EXCEPT !.utcoffset = local_offset]
            /\ raw_parsed.kind = "aware" =>
                  candidate.timestamp = raw_parsed.value
            /\ raw_parsed.kind # "none"
    IN  IF candidate.source \in {"fs:birthtime", "fs:mtime", "fs:ctime"}
        THEN candidate.timestamp.utcoffset
                 = utcoffset_at(tzdata, Timestamp(candidate.timestamp))
        ELSE IF candidate.source = "fs:path"
        THEN candidate.timestamp.utcoffset = local_offset
        ELSE read(parse_datetime(RawOf(candidate), tzdata))

IsVideo == lower(PathSuffix(file_path)) \in VIDEO_EXTENSIONS

IsImage == lower(PathSuffix(file_path)) \in IMAGE_EXTENSIONS

\* C17: collect_file_datetime_context invokes the ffprobe generator iff the
\* extension is a video extension, or it is neither an image nor a video
\* extension and include_ffprobe_for_unknown is true; for an image extension
\* ffprobe is never invoked whatever the flag, and the exiftool generator is
\* invoked in every case.
C17_FfprobeForVideoOrUnknown ==
    Ran =>
        /\ ("ffprobe" \in invoked) <=>
              \/ IsVideo
              \/ (~IsImage /\ ~IsVideo /\ flags.include_ffprobe_for_unknown)
        /\ IsImage => "ffprobe" \notin invoked
        /\ "exiftool" \in invoked

\* C17 witness: a file without extension went to ffprobe because of the
\* flag.
C17_Witness ==
    /\ Ran
    /\ PathSuffix(file_path) = ""
    /\ ~IsImage /\ ~IsVideo
    /\ flags.include_ffprobe_for_unknown
    /\ invoked = {"exiftool", "ffprobe"}

\* C25: in every context the candidate list is the media candidates
\* (exiftool then ffprobe) followed by the filesystem candidates, and all
\* source labels in it are pairwise distinct, so the equality-based index
\* lookup returns the position of the very candidate that was chosen:
\* media_most_likely, when not -1, is below the number of media candidates
\* and fs_most_likely is at or above it.
C25_IndicesPointAtChosen ==
    Collected =>
        LET from(c, tool) == StartsWith(c.source, tool \o ":")
            holds(candidates, media, fs_all, context) ==
                /\ candidates = media \o fs_all
                /\ \E k \in 0..Len(media) :
                      \A i \in 1..Len(media) :
                          IF i <= k THEN from(media[i], "exiftool")
                          ELSE from(media[i], "ffprobe")
                /\ \A i \in 1..Len(fs_all) : from(fs_all[i], "fs")
                /\ \A i, j \in 1..Len(candidates) :
                      i # j => candidates[i].source # candidates[j].source
                /\ context.media_most_likely # -1 =>
                      /\ context.media_most_likely < Len(media)
                      /\ Returned(At(context.media_most_likely))
                             = choose_most_likely(media)
                /\ context.fs_most_likely >= Len(media)
                /\ Returned(At(context.fs_most_likely)) = choose_most_likely(fs_all)
        IN  holds(ctx.value.candidates, GeneratedMedia, FsAll, ctx.value)

\* C25 witness: exiftool and ffprobe both gave candidates, the media-best is
\* not the first of them and the filesystem-best is not the first
\* filesystem candidate.
C25_Witness ==
    /\ Collected
    /\ \E i, j \in 1..Len(GeneratedMedia) :
          /\ StartsWith(GeneratedMedia[i].source, "exiftool:")
          /\ StartsWith(GeneratedMedia[j].source, "ffprobe:")
    /\ ctx.value.media_most_likely >= 1
    /\ ctx.value.fs_most_likely > Len(GeneratedMedia)

-----------------------------------------------------------------------------
(* SpecFusion: collect_file_datetime_context on files whose folder names a   *)
(* year only or no date, with embedded date/times of another UTC offset.     *)

YearPaths ==
    { <<"data", "2021", "clip.jpg">>,
      <<"data", "2021", "clip.mp4">>,
      <<"2022", "photos", "clip.bin">> }

DatelessPaths == { <<"data", "photos", "clip.mov">> }

InitFusion ==
    /\ tzdata \in LocalZones
    /\ local_offset \in {tzdata.standard, tzdata.standard + tzdata.dst}
    /\ file_path \in YearPaths \cup DatelessPaths
    /\ flags \in Flags
    /\ exiftool_run \in ExiftoolRecordRuns
    /\ ffprobe_run \in
          IF wants_ffprobe(file_path, flags.include_ffprobe_for_unknown)
          THEN FfprobeFewRuns ELSE {NotRun}
    /\ stat \in FileStats
    /\ cands = << >>
    /\ cmp = NotRun
    /\ ranked = NotRun
    /\ path_trace = NotRun
    /\ ctx = NotRun
    /\ invoked = {}
    /\ parse_input = NotRun
    /\ parse_output = NotRun
    /\ calls = << >>
    /\ generated = NotRun
    /\ ServerIdle
    /\ OrganizerIdle

SpecFusion == InitFusion /\ [][Next]_vars

\* C23: the two-stage fusion gives the same answer as ranking everything at
\* once: for every context the overall-best candidate equals
\* choose_most_likely applied to the full merged candidate list (media
\* candidates followed by filesystem candidates).
C23_FusionEqualsFullRanking ==
    Collected =>
        LET agrees(overall_best, full_ranking) ==
                /\ full_ranking.status = "returned"
                /\ overall_best = full_ranking.value
        IN  agrees(At(ctx.value.most_likely),
                   choose_most_likely(ctx.value.candidates))

-----------------------------------------------------------------------------
(* SpecExiftool: exiftool_candidates over records that hold up to two of the *)
(* seven fields, with values that parse and values that do not.              *)

ExifFieldNames == {priority[i][1] : i \in 1..Len(priority)}

\* A date/time without a zone, an impossible date, a missing value and a
\* POSIX timestamp.
ExifRawValues ==
    { JStr("2022:05:01 10:00:00"), JStr("0000:00:00 00:00:00"), JNull,
      JNum(PosixAt(Wall(2021, 6, 1, 0, 0, 0), 0)[1], 0) }

SparseRecords ==
    { JDict(fields) :
        fields \in UNION { [present -> ExifRawValues] :
                              present \in {S \in SUBSET ExifFieldNames :
                                              Cardinality(S) <= 2} } }

\* All seven fields, the later of the list with the earlier date/times, and
\* a field exiftool_candidates does not read.
FullRecord ==
    JDict([DateTimeOriginal |-> JStr("2022:07:01 00:00:00"),
           CreateDate |-> JStr("2022:06:01 00:00:00"),
           DateTimeDigitized |-> JStr("2022:05:01 00:00:00"),
           CreationDate |-> JStr("2022:04:01 00:00:00Z"),
           TrackCreateDate |-> JStr("2022-03-01T00:00:00+01:00"),
           MediaCreateDate |-> JStr("2022:02:01 00:00:00"),
           ModifyDate |-> JStr("2022:01:01 00:00:00"),
           FileModifyDate |-> JStr("2021:01:01 00:00:00")])

\* A first record with a field that does not parse, followed by a record
\* with other fields.
TwoRecords ==
    JList(<< JDict([CreateDate |-> JStr("2022:06:01 00:00:00"),
                    DateTimeDigitized |-> JStr("0000:00:00 00:00:00"),
                    ModifyDate |-> JStr("2022:01:01 00:00:00")]),
             JDict([DateTimeOriginal |-> JStr("2020:01:01 00:00:00"),
                    CreateDate |-> JStr("2020:01:02 00:00:00")]) >>)

ExiftoolOutputs ==
    { JList(<<record>>) : record \in SparseRecords \cup {FullRecord} }
    \cup { TwoRecords, JList(<< >>), JList(<< JStr("no record"), FullRecord >>),
           FullRecord, JNull, NotJson }

ExiftoolRuns ==
    { ProcessRun(TRUE, 0, stdout) : stdout \in ExiftoolOutputs }
    \cup { ProcessRun(TRUE, 1, JList(<<FullRecord>>)),
           ProcessRun(FALSE, 0, NotJson) }

InitExiftool ==
    /\ tzdata \in LocalZones
    /\ local_offset \in {tzdata.standard, tzdata.standard + tzdata.dst}
    /\ exiftool_run \in ExiftoolRuns
    /\ flags \in [require_success : BOOLEAN]
    /\ file_path = NoFile
    /\ cands = << >>
    /\ cmp = NotRun
    /\ ranked = NotRun
    /\ ffprobe_run = NotRun
    /\ stat = NotRun
    /\ path_trace = NotRun
    /\ ctx = NotRun
    /\ invoked = {}
    /\ parse_input = NotRun
    /\ parse_output = NotRun
    /\ calls = << >>
    /\ generated = NotRun
    /\ ServerIdle
    /\ OrganizerIdle

Exiftool ==
    /\ generated = NotRun
    /\ ServerIdle
    /\ OrganizerIdle
    /\ generated' =
          [status |-> "returned",
           candidates |-> exiftool_candidates(exiftool_run, flags.require_success,
                                              tzdata, local_offset)]
    /\ UNCHANGED <<local_offset, tzdata, cands, cmp, ranked, file_path,
                   exiftool_run, ffprobe_run, stat, flags, path_trace, ctx,
                   invoked, parse_input, parse_output, calls>>
    /\ UNCHANGED server_vars
    /\ UNCHANGED organizer_vars

NextExiftool == Exiftool

SpecExiftool == InitExiftool /\ [][NextExiftool]_vars

\* The fields in the order of their priority.
FieldOrder ==
    <<"DateTimeOriginal", "CreateDate", "DateTimeDigitized", "CreationDate",
      "TrackCreateDate", "MediaCreateDate", "ModifyDate">>

\* The tool's output was read: the tool ran, its exit status is accepted
\* and it printed JSON.
OutputRead ==
    /\ exiftool_run.launched
    /\ flags.require_success => exiftool_run.returncode = 0
    /\ exiftool_run.stdout # NotJson

\* The output is a non-empty list whose first element is a record.
HasFirstRecord ==
    /\ OutputRead
    /\ exiftool_run.stdout.kind = "list"
    /\ Len(exiftool_run.stdout.items) > 0
    /\ exiftool_run.stdout.items[1].kind = "dict"

\* The field is present in the record and its value parses.
PresentAndParseable(record, field) ==
    /\ field \in DOMAIN record.fields
    /\ parse_datetime(record.fields[field], tzdata) # ParsedNone

SourcesOf(candidates) == [i \in 1..Len(candidates) |-> candidates[i].source]

\* C22: exiftool_candidates reads only the first record of the tool output
\* and emits at most one candidate per field, in the fixed order
\* DateTimeOriginal, CreateDate, DateTimeDigitized, CreationDate,
\* TrackCreateDate, MediaCreateDate, ModifyDate: the output is the
\* subsequence of that list whose fields are present and parseable, each
\* tagged exiftool:<field>, and fields that are absent or unparseable are
\* dropped without error.
C22_ExiftoolFieldsInPriorityOrder ==
    generated # NotRun =>
        LET tagged(fields) ==
                [i \in 1..Len(fields) |-> "exiftool:" \o fields[i]]
            Emitted(field) ==
                PresentAndParseable(exiftool_run.stdout.items[1], field)
            holds(sources) ==
                /\ generated.status = "returned"
                /\ HasFirstRecord
                       => sources = tagged(SelectSeq(FieldOrder, Emitted))
                /\ ~HasFirstRecord => sources = << >>
        IN  holds(SourcesOf(generated.candidates))

\* C22 witness: of two records only the first was read; it held a field
\* that does not parse between two that do, the second of them with the
\* earlier date/time.
C22_Witness ==
    /\ generated # NotRun
    /\ exiftool_run.stdout = TwoRecords
    /\ SourcesOf(generated.candidates) = <<"exiftool:CreateDate", "exiftool:ModifyDate">>
    /\ InstantLess(Timestamp(generated.candidates[2].timestamp),
                   Timestamp(generated.candidates[1].timestamp))

-----------------------------------------------------------------------------
(* SpecScenario: the JPEG IMG_20220430.jpg with DateTimeOriginal             *)
(* 2022:05:01 10:00:00 and filesystem times on 2022-05-02 (local time).      *)

ScenarioPaths ==
    { <<directory, parent, "IMG_20220430.jpg">> :
        directory \in {"data", "home"}, parent \in {"photos", "camera", "trip"} }

\* What exiftool prints for the JPEG: the capture time, with or without a
\* tag that is not among the priority fields.
ScenarioRecords ==
    { JDict([DateTimeOriginal |-> JStr("2022:05:01 10:00:00")]),
      JDict([DateTimeOriginal |-> JStr("2022:05:01 10:00:00"),
             FileModifyDate |-> JStr("2022:05:02 12:00:00+00:00")]) }

\* Times of day on 2022-05-02.
ScenarioClocks ==
    { Wall(2022, 5, 2, 0, 0, 0), Wall(2022, 5, 2, 12, 0, 0),
      Wall(2022, 5, 2, 23, 59, 59) }

\* The files whose mtime and ctime are on 2022-05-02 in the local zone (at
\* the offset it has in May); st_birthtime is missing or on that day too.
ScenarioStats(zone) ==
    LET utcoffset == zone.standard + zone.dst
    IN  { StatResult(has_birthtime,
                     PosixAt(Wall(2022, 5, 2, 0, 0, 0), utcoffset),
                     PosixAt(m, utcoffset), PosixAt(c, utcoffset)) :
            has_birthtime \in BOOLEAN, m \in ScenarioClocks, c \in ScenarioClocks }

InitScenario ==
    /\ tzdata \in LocalZones
    /\ local_offset \in {tzdata.standard, tzdata.standard + tzdata.dst}
    /\ file_path \in ScenarioPaths
    /\ flags \in Flags
    /\ exiftool_run \in { ProcessRun(TRUE, 0, JList(<<record>>)) :
                            record \in ScenarioRecords }
    /\ ffprobe_run = NotRun
    /\ stat \in ScenarioStats(tzdata)
    /\ cands = << >>
    /\ cmp = NotRun
    /\ ranked = NotRun
    /\ path_trace = NotRun
    /\ ctx = NotRun
    /\ invoked = {}
    /\ parse_input = NotRun
    /\ parse_output = NotRun
    /\ calls = << >>
    /\ generated = NotRun
    /\ ServerIdle
    /\ OrganizerIdle

SpecScenario == InitScenario /\ [][Next]_vars

\* C8: in the scenario the media-best is the exiftool:DateTimeOriginal
\* candidate, the filesystem-best is the fs:path candidate at 2022-04-30
\* (origin path:filename:YYYYMMDD), and the overall best is that fs:path
\* candidate, the older of the two, which are not prefix-compatible.
C8_ScenarioPicksPathDate ==
    Collected =>
        LET c == ctx.value
            media == At(c.media_most_likely)
            fs == At(c.fs_most_likely)
        IN  /\ c.media_most_likely # -1
            /\ media.source = "exiftool:DateTimeOriginal"
            /\ media.timestamp = DateTime(2022, 5, 1, 10, 0, 0, 0, local_offset)
            /\ fs.source = "fs:path"
            /\ fs.origin_source = "path:filename:YYYYMMDD"
            /\ fs.timestamp = DateTime(2022, 4, 30, 0, 0, 0, 0, local_offset)
            /\ c.most_likely = c.fs_most_likely
            /\ ~_has_prefix_relation(fs, media)
            /\ InstantLess(Timestamp(fs.timestamp), Timestamp(media.timestamp))

\* C8 witness: the scenario on a platform with st_birthtime, in a zone whose
\* offset in May is not the one it has now.
C8_Witness ==
    /\ Collected
    /\ stat.has_birthtime
    /\ local_offset # tzdata.standard + tzdata.dst
    /\ Len(ctx.value.candidates) = 5
    /\ ctx.value.most_likely = 4


-----------------------------------------------------------------------------
(* The variables of the capture-time fusion, for the tools that only call it *)

fusion_vars ==
    <<local_offset, tzdata, cands, cmp, ranked, file_path, exiftool_run,
      ffprobe_run, stat, flags, path_trace, ctx, invoked, parse_input,
      parse_output, calls, generated>>

\* No capture time is being analysed.
FusionIdle ==
    /\ local_offset = 0
    /\ tzdata = FixedZone(0)
    /\ cands = << >>
    /\ cmp = NotRun
    /\ ranked = NotRun
    /\ calls = << >>
    /\ generated = NotRun
    /\ Idle

-----------------------------------------------------------------------------
(* The scan jobs of the browsing server (src/media-map-browser/server.py):   *)
(* ScanJob, the job and meta-cache methods of AppState, and scan_worker.     *)
(* A block under `with self.lock` is one step; the code of a thread between  *)
(* two such blocks touches nothing shared and belongs to the next step. The  *)
(* scan cache, the scan index and media_index are not read by the jobs and   *)
(* are left out.                                                             *)

\* scan_worker reports progress every ProgressEvery files.
ProgressEvery == 8

\* Largest number of files of a root that several jobs scan at a time.
MaxFiles == 2

ScanWorkers == {"job-1", "job-2"}

\* The files of a root are numbered in the order list_media_files sorts
\* them; every other one carries GPS coordinates.
MediaRecord(file) == [path |-> file, located |-> file % 2 = 1]

ScanJob ==
    [status |-> "running", total |-> 0, processed |-> 0, located |-> 0,
     unlocated |-> 0, error |-> None, records |-> << >>]

\* An optional keyword argument: << >> for None, <<v>> for the value v.
Given(argument, current) == IF Len(argument) = 0 THEN current ELSE argument[1]

update_job_progress(job, total, processed, located, unlocated) ==
    [job EXCEPT !.total = Given(total, @),
                !.processed = Given(processed, @),
                !.located = Given(located, @),
                !.unlocated = Given(unlocated, @)]

CountLocated(records) ==
    Cardinality({i \in 1..Len(records) : records[i].located})

complete_job(job, records) ==
    [job EXCEPT !.records = records,
                !.status = "completed",
                !.located = CountLocated(records),
                !.unlocated = Len(records) - CountLocated(records),
                !.processed = Len(records)]

fail_job(job, error) == [job EXCEPT !.status = "failed", !.error = error]

\* The locals of a scan_worker thread that has listed n files.
Worker(n) ==
    [pc |-> "list_media_files", files |-> n, idx |-> 0, records |-> << >>,
     located_count |-> 0, unlocated_count |-> 0, payload |-> << >>]

\* What the meta cache file may hold when the server starts.
StoredCaches == { << >>, [file \in {1} |-> MediaRecord(file)] }

\* One job over up to MaxFiles files or over enough files for a progress
\* report inside the loop, or all jobs at once over up to MaxFiles files.
InitScan ==
    /\ \/ \E w \in ScanWorkers :
             scan \in [{w} -> {Worker(n) : n \in (0..MaxFiles)
                                  \cup {ProgressEvery, ProgressEvery + 1}}]
       \/ scan \in [ScanWorkers -> {Worker(n) : n \in 0..MaxFiles}]
    /\ jobs = [w \in DOMAIN scan |-> ScanJob]
    /\ meta_cache \in StoredCaches
    /\ meta_disk = meta_cache
    /\ meta_changed = FALSE
    /\ FusionIdle
    /\ OrganizerIdle

\* files = list_media_files(root); update_job_progress(job, total=len(files),
\* processed=0).
ListFiles(w) ==
    /\ scan[w].pc = "list_media_files"
    /\ jobs' = [jobs EXCEPT ![w] =
                   update_job_progress(@, <<scan[w].files>>, <<0>>, << >>, << >>)]
    /\ scan' = [scan EXCEPT ![w].pc = IF scan[w].files = 0 THEN "complete_job"
                                      ELSE "get_or_build_record",
                            ![w].idx = 1]
    /\ UNCHANGED <<meta_cache, meta_changed, meta_disk, fusion_vars, organizer_vars>>

\* The end of an iteration of the loop over the files: the locals after the
\* try block are `after`; progress is reported every ProgressEvery files and
\* at the last file.
EndOfIteration(w, after) ==
    /\ jobs' = IF after.idx % ProgressEvery = 0 \/ after.idx = after.files
               THEN [jobs EXCEPT ![w] =
                        update_job_progress(@, << >>, <<after.idx>>,
                                            <<after.located_count>>,
                                            <<after.unlocated_count>>)]
               ELSE jobs
    /\ scan' = [scan EXCEPT ![w] =
                   [after EXCEPT !.idx = @ + 1,
                                 !.pc = IF after.idx = after.files
                                        THEN "complete_job"
                                        ELSE "get_or_build_record"]]

\* records.append(record) and the two counters.
Appended(locals, record) ==
    [locals EXCEPT !.records = Append(@, record),
                   !.located_count = IF record.located THEN @ + 1 ELSE @,
                   !.unlocated_count = IF record.located THEN @ ELSE @ + 1]

\* get_or_build_record up to its first return: file_path.stat() raises (the
\* iteration ends without a record), the record is cached (the iteration
\* ends with it), or it has to be built.
Lookup(w) ==
    /\ scan[w].pc = "get_or_build_record"
    /\ \/ /\ EndOfIteration(w, scan[w])
          /\ UNCHANGED <<meta_cache, meta_changed>>
       \/ /\ scan[w].idx \in DOMAIN meta_cache
          /\ EndOfIteration(w, Appended(scan[w], meta_cache[scan[w].idx]))
          /\ UNCHANGED <<meta_cache, meta_changed>>
       \/ /\ scan[w].idx \notin DOMAIN meta_cache
          /\ scan' = [scan EXCEPT ![w].pc = "_build_record"]
          /\ UNCHANGED <<jobs, meta_cache, meta_changed>>
    /\ UNCHANGED <<meta_disk, fusion_vars, organizer_vars>>

\* self.meta_cache[str(file_path)] = {...}; self.meta_changed = True
Stored(cache, changed, record) ==
    [meta_cache |-> [file \in DOMAIN cache \cup {record.path} |->
                        IF file = record.path THEN record ELSE cache[file]],
     meta_changed |-> TRUE]

\* The rest of get_or_build_record: _build_record raises, or the record is
\* built and stored in the meta cache.
Build(w) ==
    /\ scan[w].pc = "_build_record"
    /\ \/ /\ EndOfIteration(w, scan[w])
          /\ UNCHANGED <<meta_cache, meta_changed>>
       \/ /\ EndOfIteration(w, Appended(scan[w], MediaRecord(scan[w].idx)))
          /\ meta_cache' =
                Stored(meta_cache, meta_changed, MediaRecord(scan[w].idx)).meta_cache
          /\ meta_changed' =
                Stored(meta_cache, meta_changed, MediaRecord(scan[w].idx)).meta_changed
    /\ UNCHANGED <<meta_disk, fusion_vars, organizer_vars>>

Complete(w) ==
    /\ scan[w].pc = "complete_job"
    /\ jobs' = [jobs EXCEPT ![w] = complete_job(@, scan[w].records)]
    /\ scan' = [scan EXCEPT ![w].pc = "save_scan_cache"]
    /\ UNCHANGED <<meta_cache, meta_changed, meta_disk, fusion_vars, organizer_vars>>

OSError == "OSError"

\* save_scan_cache: it returns, or save_json raises and the handler of
\* scan_worker calls fail_job.
SaveScanCache(w) ==
    /\ scan[w].pc = "save_scan_cache"
    /\ \/ /\ scan' = [scan EXCEPT ![w].pc = "flush_meta_cache"]
          /\ UNCHANGED jobs
       \/ /\ jobs' = [jobs EXCEPT ![w] = fail_job(@, OSError)]
          /\ scan' = [scan EXCEPT ![w].pc = "save_scan_cache raised"]
    /\ UNCHANGED <<meta_cache, meta_changed, meta_disk, fusion_vars, organizer_vars>>

\* The locked block of flush_meta_cache.
FlushSnapshot(w) ==
    /\ scan[w].pc = "flush_meta_cache"
    /\ IF ~meta_changed
       THEN /\ scan' = [scan EXCEPT ![w].pc = "returned"]
            /\ UNCHANGED meta_changed
       ELSE /\ scan' = [scan EXCEPT ![w].pc = "save_json",
                                    ![w].payload = meta_cache]
            /\ meta_changed' = FALSE
    /\ UNCHANGED <<jobs, meta_cache, meta_disk, fusion_vars, organizer_vars>>

\* save_json(META_CACHE_PATH, payload), outside the lock: the file is
\* written, or save_json raises and scan_worker calls fail_job.
FlushSave(w) ==
    /\ scan[w].pc = "save_json"
    /\ \/ /\ meta_disk' = scan[w].payload
          /\ scan' = [scan EXCEPT ![w].pc = "returned"]
          /\ UNCHANGED jobs
       \/ /\ jobs' = [jobs EXCEPT ![w] = fail_job(@, OSError)]
          /\ scan' = [scan EXCEPT ![w].pc = "flush_meta_cache raised"]
          /\ UNCHANGED meta_disk
    /\ UNCHANGED <<meta_cache, meta_changed, fusion_vars, organizer_vars>>

NextScan ==
    \/ \E w \in DOMAIN scan : ListFiles(w)
    \/ \E w \in DOMAIN scan : Lookup(w)
    \/ \E w \in DOMAIN scan : Build(w)
    \/ \E w \in DOMAIN scan : Complete(w)
    \/ \E w \in DOMAIN scan : SaveScanCache(w)
    \/ \E w \in DOMAIN scan : FlushSnapshot(w)
    \/ \E w \in DOMAIN scan : FlushSave(w)

SpecScan == InitScan /\ [][NextScan]_vars

\* C27: a scan job starts in status 'running' and changes status at most
\* once, to 'completed' or to 'failed'; once a job is 'completed' its status
\* never changes again, whatever happens while the scan cache and the meta
\* cache are saved afterwards.
C27_StatusChangesOnce ==
    /\ \A w \in DOMAIN jobs : jobs[w].status = "running"
    /\ [][\A w \in DOMAIN jobs :
             jobs'[w].status # jobs[w].status =>
                 /\ jobs[w].status = "running"
                 /\ jobs'[w].status \in {"completed", "failed"}]_vars

\* C28: at every observable moment of a scan job processed <= total and
\* located + unlocated <= processed, and the processed counter never
\* decreases during the job's life, including at completion when some files
\* failed to produce a record.
C28_ProgressMonotone ==
    /\ [](\A w \in DOMAIN jobs :
             /\ jobs[w].processed <= jobs[w].total
             /\ jobs[w].located + jobs[w].unlocated <= jobs[w].processed)
    /\ [][\A w \in DOMAIN jobs : jobs'[w].processed >= jobs[w].processed]_vars

\* No thread is inside flush_meta_cache, and no call of it has raised.
FlushesReturned ==
    \A w \in DOMAIN scan :
        scan[w].pc \notin {"save_json", "flush_meta_cache raised"}

\* C29: with several scan workers running concurrently, once every
\* flush_meta_cache call has returned and meta_changed is false, the meta
\* cache persisted on disk equals the in-memory meta_cache: no cached record
\* added by get_or_build_record is lost by an interleaving of flushes and
\* updates.
C29_DiskEqualsMemory ==
    (FlushesReturned /\ ~meta_changed) => meta_disk = meta_cache

-----------------------------------------------------------------------------
(* The batch organizer's copy_by_plan (src/photo_organizer.py)

   A path is the sequence of its parts.  A date folder under the output
   directory is the pair <<quarter, name>>.  The content of a file is named
   by the path that held it when copy_by_plan was called, so a copy or a move
   carries the name of its source to the target. *)

MaxRecords == 3

output_dir == "out"

DateKeys == {"20210604", "20211231"}

\* The files a scan can find; the last one already lies in the output tree.
ScannedSources ==
    { <<"in", "a", "x.jpg">>, <<"in", "b", "x.jpg">>, <<"in", "a", "y.jpg">>,
      <<"out", "2021Q2", "20210604", "x.jpg">> }

\* What earlier runs may have left in the output tree.
OrganizedFiles ==
    { <<"out", "2021Q2", "20210604", "x.jpg">>,
      <<"out", "2021Q2", "20210604-trip", "x.jpg">>,
      <<"out", "2021Q4", "20211231", "y.jpg">> }

RenamedFolders == { <<"2021Q2", "20210604-trip">> }

FileRecord(source, date_key) == [source |-> source, date_key |-> date_key]

\* One record per scanned file, as collect_plan builds them.
Plans ==
    { records \in UNION { [1..n -> { FileRecord(f, d) : f \in ScannedSources,
                                                        d \in DateKeys }]
                          : n \in 0..MaxRecords } :
        \A i, j \in DOMAIN records :
            records[i].source = records[j].source => i = j }

\* Path.name
name(path) == path[Len(path)]

\* The date folders that hold the files of the output tree.
FoldersOf(files) ==
    { <<f[2], f[3]>> : f \in { g \in files : g[1] = output_dir /\ Len(g) = 4 } }

\* f"{year}Q{quarter}"
quarter_key(date_key) ==
    SubSeq(date_key, 1, 4) \o "Q"
    \o ZeroPad(((ToInt(SubSeq(date_key, 5, 6)) - 1) \div 3) + 1, 1)

existing_date_dirs(dirs, date_key) ==
    { d \in dirs : d[1] = quarter_key(date_key) /\ StartsWith(d[2], date_key) }

\* The first of the sorted existing date folders, or the plain date folder.
target_dir(dirs, date_key) ==
    LET found == existing_date_dirs(dirs, date_key)
    IN IF found = {} THEN <<quarter_key(date_key), date_key>>
       ELSE CHOOSE d \in found : \A e \in found : e = d \/ StrLess(d[2], e[2])

target_file(dirs, record) ==
    <<output_dir>> \o target_dir(dirs, record.date_key)
    \o <<name(record.source)>>

\* shutil.copy2 or shutil.move of an existing source to a target.
transfer(files, source, target, mode) ==
    LET written == [p \in DOMAIN files \cup {target} |->
                        IF p = target THEN files[source] ELSE files[p]]
    IN IF mode = "move"
       THEN [p \in DOMAIN written \ {source} |-> written[p]]
       ELSE written

\* dest_source_map.get(target_file)
from_source(dest_source_map, target) ==
    IF target \in DOMAIN dest_source_map THEN dest_source_map[target] ELSE None

\* A variant of the loop body that never looks whether the target exists.
copy_record_overwriting(locals, tree, record, mode) ==
    LET folder == target_dir(tree.dirs, record.date_key)
        target == target_file(tree.dirs, record)
    IN [locals |-> [locals EXCEPT
                        !.index = @ + 1,
                        !.date_folders = @ \cup {record.date_key},
                        !.dest_source_map =
                            [p \in DOMAIN @ \cup {target} |->
                                IF p = target THEN record.source ELSE @[p]],
                        !.copied_entries = Append(@, <<record, target>>),
                        !.copied = @ + 1],
        tree |-> [dirs |-> tree.dirs \cup {folder},
                  files |-> transfer(tree.files, record.source, target, mode)]]

\* One iteration of copy_by_plan's loop.
copy_record(locals, tree, record, mode) ==
    LET folder == target_dir(tree.dirs, record.date_key)
        target == target_file(tree.dirs, record)
        made == tree.dirs \cup {folder}
        counted == [locals EXCEPT !.index = @ + 1,
                                  !.date_folders = @ \cup {record.date_key}]
    IN IF target \in DOMAIN tree.files
       THEN [locals |-> [counted EXCEPT
                            !.skipped = @ + 1,
                            !.skipped_entries =
                                Append(@, <<record, target,
                                            from_source(locals.dest_source_map,
                                                        target)>>)],
             tree |-> [tree EXCEPT !.dirs = made]]
       ELSE IF record.source \notin DOMAIN tree.files
       THEN [locals |-> [counted EXCEPT !.pc = "raised"],
             tree |-> [tree EXCEPT !.dirs = made]]
       ELSE [locals |-> [counted EXCEPT
                            !.dest_source_map =
                                [p \in DOMAIN @ \cup {target} |->
                                    IF p = target THEN record.source ELSE @[p]],
                            !.copied_entries = Append(@, <<record, target>>),
                            !.copied = @ + 1],
             tree |-> [dirs |-> made,
                       files |-> transfer(tree.files, record.source, target,
                                          mode)]]

\* copy_by_plan is called: every scanned source is on disk, next to what
\* the output tree already holds.
InitCopy ==
    /\ \E records \in Plans, mode \in {"copy", "move"},
          organized \in SUBSET OrganizedFiles, renamed \in SUBSET RenamedFolders :
          LET found == organized \cup { records[i].source : i \in DOMAIN records }
          IN /\ plan = [records |-> records, mode |-> mode, found |-> found]
             /\ disk = [files |-> [p \in found |-> p],
                        dirs |-> FoldersOf(found) \cup renamed]
    /\ copy = [pc |-> "loop", index |-> 1, copied |-> 0, skipped |-> 0,
               date_folders |-> {}, skipped_entries |-> << >>,
               copied_entries |-> << >>, dest_source_map |-> << >>]
    /\ FusionIdle
    /\ ServerIdle

\* The loop body runs for the next record.
CopyRecord ==
    /\ copy.pc = "loop"
    /\ copy.index <= Len(plan.records)
    /\ LET after == copy_record(copy, disk, plan.records[copy.index], plan.mode)
       IN /\ copy' = after.locals
          /\ disk' = after.tree
    /\ UNCHANGED <<plan, fusion_vars, server_vars>>

\* The loop is over and copy_by_plan returns its counters and its entries.
Return ==
    /\ copy.pc = "loop"
    /\ copy.index > Len(plan.records)
    /\ copy' = [copy EXCEPT !.pc = "returned"]
    /\ UNCHANGED <<plan, disk, fusion_vars, server_vars>>

NextCopy ==
    \/ CopyRecord
    \/ Return

SpecCopy == InitCopy /\ [][NextCopy]_vars

\* C30: in copy_by_plan, for every plan copied + skipped equals the number
\* of records; a record whose target path already exists, because it was in
\* the output tree beforehand or because it was written earlier in the same
\* run, is skipped and logged; no existing file is ever overwritten; and in
\* move mode the source of a skipped record stays in place.
C30_SkipsNeverOverwrite ==
    /\ [](/\ copy.pc = "returned" =>
                /\ copy.copied + copy.skipped = Len(plan.records)
                /\ copy.copied = Len(copy.copied_entries)
                /\ copy.skipped = Len(copy.skipped_entries)
          /\ \A k \in DOMAIN copy.skipped_entries :
                LET entry == copy.skipped_entries[k]
                IN /\ \/ entry[2] \in plan.found /\ entry[3] = None
                      \/ /\ entry[2] \in DOMAIN copy.dest_source_map
                         /\ entry[3] = copy.dest_source_map[entry[2]]
                   /\ plan.mode = "move" => entry[1].source \in DOMAIN disk.files)
    /\ [][/\ \A p \in DOMAIN disk.files \cap DOMAIN disk'.files :
                disk'.files[p] = disk.files[p]
          /\ copy'.index = copy.index + 1 =>
                LET record == plan.records[copy.index]
                    target == target_file(disk.dirs, record)
                IN target \in DOMAIN disk.files =>
                      /\ copy'.skipped = copy.skipped + 1
                      /\ copy'.copied = copy.copied
                      /\ copy'.skipped_entries[Len(copy'.skipped_entries)][1]
                            = record
                      /\ copy'.skipped_entries[Len(copy'.skipped_entries)][2]
                            = target
                      /\ disk'.files = disk.files]_vars

\* A move has returned after copying one record, skipping one whose target
\* was in the output tree beforehand and skipping one whose target it had
\* written itself.
C30_Witness ==
    /\ copy.pc = "returned"
    /\ plan.mode = "move"
    /\ copy.copied >= 1
    /\ \E k \in DOMAIN copy.skipped_entries :
          /\ copy.skipped_entries[k][3] = None
          /\ copy.skipped_entries[k][2] \in plan.found
    /\ \E k \in DOMAIN copy.skipped_entries :
          /\ copy.skipped_entries[k][3] # None
          /\ copy.skipped_entries[k][1].source \in DOMAIN disk.files

=============================================================================
